---- MODULE Spec2Model ----
(***************************************************************************)
(* Model of the source-aware transformation engine                         *)
(* (scripts/transform_engine.py): FileIndex, SymbolRenamer and             *)
(* APIDriftSimulator, driven as scripts/apply_transforms.py drives them.   *)
(*                                                                         *)
(* Text.  A string (a path, a file's content, a symbol name) is a sequence *)
(* of atoms.  An atom is a run of characters that the corpus never splits: *)
(* a keyword, a piece of an identifier, one punctuation character, one     *)
(* white-space token.  Adjacent word atoms form one word, exactly as       *)
(* adjacent word characters do, so the regular expressions of the source   *)
(* are evaluated atom by atom the way `re` evaluates them character by     *)
(* character: "Handle","r" is the identifier Handler, of which Handle is a *)
(* substring but not a whole word.                                         *)
(***************************************************************************)
EXTENDS Integers, Sequences, FiniteSets, TLC

SpaceAtoms == {" ", "\n", "    "}
PunctAtoms == {"(", ")", "{", "}", ":", "*", ".", "/", "=", ";", ","}

\* what At yields outside the string
NoAtom == "<eof>"

\* \s and \w of Python's re
IsSpace(a) == a \in SpaceAtoms
IsWord(a) == a \notin SpaceAtoms /\ a \notin PunctAtoms /\ a # NoAtom

At(s, i) == IF i >= 1 /\ i <= Len(s) THEN s[i] ELSE NoAtom

\* number of characters of an atom (len() counts characters)
AtomLen(a) ==
    CASE a \in {"V2", "f1", "f2", "f3", "f4", "go", "if", "js", "p1", "p2", "p3", "py", "q1", "q2", "q3", "q4", "q5"} -> 2
      [] a \in {"Foo", "New", "Old", "Run", "api", "app", "cpp", "def", "int", "lib", "pkg", "src", "sub", "use", "var"} -> 3
      [] a \in {"    ", "Bars", "Conf", "Init", "Load", "conf", "decl", "deep", "func", "main", "pass", "self", "tion", "type"} -> 4
      [] a \in {"Limit", "_test", "class"} -> 5
      [] a \in {"Compat", "Handle", "Legacy", "struct", "vendor"} -> 6
      [] a \in {"Renamed", "Updated", "Wrapper", "handler"} -> 7
      [] a \in {"Modified"} -> 8
      [] OTHER -> 1

\* str.isupper() of the atom's first character
UpperInitial(a) ==
    a \in {"Bars", "Compat", "Conf", "Foo", "Handle", "Init", "Legacy", "Limit", "Load", "Modified", "New", "Old", "Renamed", "Run", "Updated", "V2", "Wrapper"}

RECURSIVE StrLen(_)
StrLen(s) == IF s = <<>> THEN 0 ELSE AtomLen(Head(s)) + StrLen(Tail(s))

Slice(s, i, e) == SubSeq(s, i, e - 1)

\* s[i:i+len(lit)] == lit
MatchLit(s, i, lit) ==
    /\ i >= 1
    /\ i + Len(lit) - 1 <= Len(s)
    /\ \A k \in 1..Len(lit) : s[i + k - 1] = lit[k]

\* `lit in s`
Contains(s, lit) == \E i \in 1..Len(s) : MatchLit(s, i, lit)

\* s.endswith(lit)
EndsWith(s, lit) == Len(lit) <= Len(s) /\ MatchLit(s, Len(s) - Len(lit) + 1, lit)

\* s.startswith(lit)
StartsWith(s, lit) == MatchLit(s, 1, lit)

WordAt(s, i) == IsWord(At(s, i))

\* \b between position i-1 and position i
Boundary(s, i) == WordAt(s, i - 1) # WordAt(s, i)

\* the index after a greedy \s* starting at i
RECURSIVE SkipSpaces(_, _)
SkipSpaces(s, i) ==
    IF IsSpace(At(s, i)) THEN SkipSpaces(s, i + 1) ELSE i

\* the index after a greedy \w* starting at i
RECURSIVE SkipWord(_, _)
SkipWord(s, i) ==
    IF IsWord(At(s, i)) THEN SkipWord(s, i + 1) ELSE i

\* the index of the first occurrence of atom a at or after i, 0 if none
RECURSIVE FindAtom(_, _, _)
FindAtom(s, i, a) ==
    IF i > Len(s) THEN 0
    ELSE IF s[i] = a THEN i
    ELSE FindAtom(s, i + 1, a)

\* re.sub over the matches ends[i] (0: no match at i; otherwise the index
\* after the match starting at i), each replaced by repl[i]; matches are
\* taken leftmost, non-overlapping
RECURSIVE SubFrom(_, _, _, _)
SubFrom(s, ends, repl, i) ==
    IF i > Len(s) THEN <<>>
    ELSE IF ends[i] > 0 THEN repl[i] \o SubFrom(s, ends, repl, ends[i])
    ELSE <<s[i]>> \o SubFrom(s, ends, repl, i + 1)

\* the leftmost non-overlapping matches, as the sequence of their starts
RECURSIVE MatchesFrom(_, _, _)
MatchesFrom(s, ends, i) ==
    IF i > Len(s) THEN <<>>
    ELSE IF ends[i] > 0 THEN <<i>> \o MatchesFrom(s, ends, ends[i])
    ELSE MatchesFrom(s, ends, i + 1)

\* str.replace(old, new): every non-overlapping occurrence, no word boundary
StrReplace(s, old, new) ==
    LET ends == [i \in 1..Len(s) |-> IF MatchLit(s, i, old) THEN i + Len(old) ELSE 0]
        repl == [i \in 1..Len(s) |-> new]
    IN  SubFrom(s, ends, repl, 1)

\* re.sub(r'\b' + old + r'\b', new, s)
WordMatchEnd(s, i, old) ==
    IF /\ MatchLit(s, i, old)
       /\ Boundary(s, i)
       /\ Boundary(s, i + Len(old))
    THEN i + Len(old) ELSE 0

SubWord(s, old, new) ==
    LET ends == [i \in 1..Len(s) |-> WordMatchEnd(s, i, old)]
        repl == [i \in 1..Len(s) |-> new]
    IN  SubFrom(s, ends, repl, 1)

\* a whole-word occurrence of name in s
HasWord(s, name) == \E i \in 1..Len(s) : WordMatchEnd(s, i, name) > 0

(***************************************************************************)
(* FileIndex: symbol extraction                                            *)
(***************************************************************************)
NoMatch == [end |-> 0, name |-> <<>>]

\* func\s+(\w+)\s*\(   matched at i
GoFuncDecl(s, i) ==
    LET j == SkipSpaces(s, i + 1)
        k == SkipWord(s, j)
        m == SkipSpaces(s, k)
    IN  IF At(s, i) = "func" /\ j > i + 1 /\ k > j /\ At(s, m) = "("
        THEN [end |-> m + 1, name |-> Slice(s, j, k)]
        ELSE NoMatch

\* type\s+(\w+)\s+(?:struct|interface)   matched at i
GoTypeDecl(s, i) ==
    LET j == SkipSpaces(s, i + 1)
        k == SkipWord(s, j)
        m == SkipSpaces(s, k)
    IN  IF /\ At(s, i) = "type" /\ j > i + 1 /\ k > j /\ m > k
           /\ At(s, m) \in {"struct", "interface"}
        THEN [end |-> m + 1, name |-> Slice(s, j, k)]
        ELSE NoMatch

\* func\s+\([^)]+\)\s+(\w+)\s*\(   matched at i
GoMethodDecl(s, i) ==
    LET j == SkipSpaces(s, i + 1)
        c == FindAtom(s, j + 1, ")")
        p == SkipSpaces(s, c + 1)
        k == SkipWord(s, p)
        m == SkipSpaces(s, k)
    IN  IF /\ At(s, i) = "func" /\ j > i + 1 /\ At(s, j) = "("
           /\ c > j + 1 /\ p > c + 1 /\ k > p /\ At(s, m) = "("
        THEN [end |-> m + 1, name |-> Slice(s, p, k)]
        ELSE NoMatch

\* re.findall with one group: the groups of the leftmost non-overlapping
\* matches, m[i] being the match attempted at i
FindAll(s, m) ==
    LET ends == [i \in 1..Len(s) |-> m[i].end]
        at == MatchesFrom(s, ends, 1)
    IN  [n \in 1..Len(at) |-> m[at[n]].name]

_extract_go_symbols(content) ==
    FindAll(content, [i \in 1..Len(content) |-> GoFuncDecl(content, i)])
    \o FindAll(content, [i \in 1..Len(content) |-> GoTypeDecl(content, i)])
    \o FindAll(content, [i \in 1..Len(content) |-> GoMethodDecl(content, i)])

\* def\s+(\w+)\s*\(   matched at i
PyDefDecl(s, i) ==
    LET j == SkipSpaces(s, i + 1)
        k == SkipWord(s, j)
        m == SkipSpaces(s, k)
    IN  IF At(s, i) = "def" /\ j > i + 1 /\ k > j /\ At(s, m) = "("
        THEN [end |-> m + 1, name |-> Slice(s, j, k)]
        ELSE NoMatch

\* class\s+(\w+)\s*[:(]   matched at i
PyClassDecl(s, i) ==
    LET j == SkipSpaces(s, i + 1)
        k == SkipWord(s, j)
        m == SkipSpaces(s, k)
    IN  IF At(s, i) = "class" /\ j > i + 1 /\ k > j /\ At(s, m) \in {":", "("}
        THEN [end |-> m + 1, name |-> Slice(s, j, k)]
        ELSE NoMatch

\* The statements ast.parse finds in the line-structured files of the
\* corpus: a statement starts a line after d indentation atoms, and is a
\* FunctionDef (def NAME(), a ClassDef (class NAME) or an Assign whose
\* first target is a simple name (NAME = ...), at any depth.
LineStart(s, i) == i = 1 \/ At(s, i - 1) = "\n"

RECURSIVE SkipIndent(_, _)
SkipIndent(s, i) == IF At(s, i) = "    " THEN SkipIndent(s, i + 1) ELSE i

PyStatement(s, i) ==
    LET q == SkipIndent(s, i)
        k == SkipWord(s, q)
        m == SkipSpaces(s, k)
    IN  IF ~LineStart(s, i) THEN NoMatch
        ELSE IF PyDefDecl(s, q).end > 0 /\ Boundary(s, q)
            THEN [end |-> q + 1, name |-> PyDefDecl(s, q).name, depth |-> q - i]
        ELSE IF PyClassDecl(s, q).end > 0 /\ Boundary(s, q)
            THEN [end |-> q + 1, name |-> PyClassDecl(s, q).name, depth |-> q - i]
        ELSE IF k > q /\ At(s, m) = "=" /\ At(s, m + 1) # "="
            THEN [end |-> q + 1, name |-> Slice(s, q, k), depth |-> q - i]
        ELSE NoMatch

\* ast.parse raises SyntaxError: the parentheses are not balanced
Count(s, a) == Cardinality({i \in 1..Len(s) : s[i] = a})
SyntaxError(content) == Count(content, "(") # Count(content, ")")

\* ast.walk is breadth first: the statements of one depth come in source
\* order, before every statement of a greater depth
RECURSIVE WalkDepth(_, _, _)
WalkDepth(s, st, d) ==
    IF d > Len(s) THEN <<>>
    ELSE LET ends == [i \in 1..Len(s) |-> IF st[i].end > 0 /\ st[i].depth = d THEN i + 1 ELSE 0]
             at == MatchesFrom(s, ends, 1)
         IN  [n \in 1..Len(at) |-> st[at[n]].name] \o
             (IF \E i \in 1..Len(s) : st[i].end > 0 /\ st[i].depth > d
              THEN WalkDepth(s, st, d + 1) ELSE <<>>)

_extract_python_symbols(content) ==
    IF SyntaxError(content)
    THEN FindAll(content, [i \in 1..Len(content) |-> PyDefDecl(content, i)])
         \o FindAll(content, [i \in 1..Len(content) |-> PyClassDecl(content, i)])
    ELSE WalkDepth(content, [i \in 1..Len(content) |-> PyStatement(content, i)], 0)


\* [\w:]* from i
RECURSIVE SkipQualified(_, _)
SkipQualified(s, i) ==
    IF IsWord(At(s, i)) \/ At(s, i) = ":" THEN SkipQualified(s, i + 1) ELSE i

\* (?:[\w:]+\s+)*(\w+)\s*\([^)]*\)\s*[{;]   from q
RECURSIVE CppChain(_, _)
CppChain(s, q) ==
    LET w == SkipWord(s, q)
        m == SkipSpaces(s, w)
        c == FindAtom(s, m + 1, ")")
        n == SkipSpaces(s, c + 1)
        r == SkipQualified(s, q)
        sp == SkipSpaces(s, r)
    IN  IF w > q /\ At(s, m) = "("
        THEN IF c > 0 /\ At(s, n) \in {"{", ";"}
             THEN [end |-> n + 1, name |-> Slice(s, q, w)]
             ELSE NoMatch
        ELSE IF r > q /\ sp > r THEN CppChain(s, sp)
        ELSE NoMatch

\* (?:^|\n)\s*(?:[\w:]+\s+)*(\w+)\s*\([^)]*\)\s*[{;]   matched at i (re.MULTILINE)
CppFuncDecl(s, i) ==
    IF LineStart(s, i) \/ At(s, i) = "\n" THEN CppChain(s, SkipSpaces(s, i)) ELSE NoMatch

\* the index of the last occurrence of atom a in i..e-1, 0 if none
RECURSIVE FindLast(_, _, _, _)
FindLast(s, i, e, a) ==
    IF e <= i THEN 0
    ELSE IF At(s, e - 1) = a THEN e - 1
    ELSE FindLast(s, i, e - 1, a)

\* kw\s+(\w+)(?:\s*:|[^;]*{)   matched at i, kw being class or struct
CppTypeDecl(s, i, kw) ==
    LET j == SkipSpaces(s, i + 1)
        k == SkipWord(s, j)
        m == SkipSpaces(s, k)
        semi == FindAtom(s, k, ";")
        brace == FindLast(s, k, IF semi = 0 THEN Len(s) + 1 ELSE semi, "{")
    IN  IF ~(At(s, i) = kw /\ j > i + 1 /\ k > j) THEN NoMatch
        ELSE IF At(s, m) = ":" THEN [end |-> m + 1, name |-> Slice(s, j, k)]
        ELSE IF brace > 0 THEN [end |-> brace + 1, name |-> Slice(s, j, k)]
        ELSE NoMatch

\* len(s) > 1 and s.isalnum()
CppKeep(name) == StrLen(name) > 1 /\ \A n \in 1..Len(name) : name[n] # "_"

_extract_cpp_symbols(content) ==
    SelectSeq(
        FindAll(content, [i \in 1..Len(content) |-> CppFuncDecl(content, i)])
        \o FindAll(content, [i \in 1..Len(content) |-> CppTypeDecl(content, i, "class")])
        \o FindAll(content, [i \in 1..Len(content) |-> CppTypeDecl(content, i, "struct")]),
        CppKeep)

_extract_symbols(content, language) ==
    IF language = "go" THEN _extract_go_symbols(content)
    ELSE IF language = "python" THEN _extract_python_symbols(content)
    ELSE IF language \in {"cpp", "c"} THEN _extract_cpp_symbols(content)
    ELSE <<>>

\* Path(file_path).suffix.lower() looked up in language_map
_detect_language(file_path) ==
    LET ext == IF Len(file_path) >= 2 /\ file_path[Len(file_path) - 1] = "."
               THEN file_path[Len(file_path)] ELSE ""
    IN  CASE ext = "go" -> "go"
          [] ext = "py" -> "python"
          [] ext \in {"cpp", "cxx", "cc", "h", "hpp", "hxx"} -> "cpp"
          [] ext = "c" -> "c"
          [] ext = "java" -> "java"
          [] ext = "js" -> "javascript"
          [] ext = "ts" -> "typescript"
          [] OTHER -> "unknown"

(***************************************************************************)
(* FileIndex: traversal                                                    *)
(***************************************************************************)
extensions == {<<".", "go">>, <<".", "py">>, <<".", "cpp">>, <<".", "h">>, <<".", "hpp">>,
               <<".", "c">>, <<".", "java">>, <<".", "js">>, <<".", "ts">>}

exclude_patterns == {<<"vendor", "/">>, <<"node_modules", "/">>, <<"third_party", "/">>,
                     <<".", "git", "/">>, <<"test", "/">>, <<"tests", "/">>,
                     <<"_test", ".">>, <<".", "test", ".">>, <<"generated", "/">>}

\* os.path.join(root, filename)
PathJoin(root, filename) == root \o <<"/">> \o filename

\* os.walk(root_dir) over the directory tree: the entries (root, filenames)
\* of root_dir and of every directory below it, top down
Walk(tree, root_dir) ==
    SelectSeq(tree, LAMBDA e : e.root = root_dir \/ StartsWith(e.root, root_dir \o <<"/">>))

\* the files one os.walk entry contributes
EntryFiles(e) ==
    IF \E pattern \in exclude_patterns : Contains(e.root, pattern) THEN <<>>
    ELSE LET keep == SelectSeq(e.filenames, LAMBDA filename :
                        /\ \E ext \in extensions : EndsWith(filename, ext)
                        /\ ~\E pattern \in exclude_patterns : Contains(filename, pattern))
         IN  [n \in 1..Len(keep) |-> PathJoin(e.root, keep[n])]

RECURSIVE Flatten(_)
Flatten(ss) == IF ss = <<>> THEN <<>> ELSE Head(ss) \o Flatten(Tail(ss))

_find_source_files(tree, root_dir) ==
    LET w == Walk(tree, root_dir)
    IN  Flatten([n \in 1..Len(w) |-> EntryFiles(w[n])])

\* FileInfo; size_bytes, line_count and imports are recorded by the source
\* and read by no operation, and are left out
_analyze_file(file_path, content) ==
    LET language == _detect_language(file_path)
    IN  [path |-> file_path, language |-> language,
         symbols |-> _extract_symbols(content, language)]


(***************************************************************************)
(* random.Random: one stateful generator; every draw is a function of the  *)
(* state and moves it on.  The generator of the library is stood for by a  *)
(* small congruential one; sample and choice draw as CPython's do.         *)
(***************************************************************************)
RngNext(r) == (r * 17 + 5) % 61

\* random.Random(seed)
RngSeed(seed) == [s |-> seed % 61, log |-> <<>>]

\* rng._randbelow(n)
RandBelow(r, n) == [val |-> RngNext(r.s) % n, rng |-> [r EXCEPT !.s = RngNext(r.s)]]

\* the call is entered in the log of the calls made on the generator
Logged(r, call) == [r EXCEPT !.log = Append(@, call)]

\* rng.random() < 0.7
RandomBelow07(r) ==
    [val |-> (RngNext(r.s) % 10) < 7, rng |-> Logged([r EXCEPT !.s = RngNext(r.s)], "random")]

\* rng.choice(seq)
Choice(r, seq) ==
    LET d == RandBelow(r, Len(seq))
    IN  [val |-> seq[d.val + 1], rng |-> Logged(d.rng, "choice")]

\* rng.sample(population, k), the pool branch (n <= 21):
\*   j = randbelow(n-i); result[i] = pool[j]; pool[j] = pool[n-i-1]
RECURSIVE SampleLoop(_, _, _, _, _)
SampleLoop(r, pool, k, i, result) ==
    IF i = k THEN [val |-> result, rng |-> r]
    ELSE LET d == RandBelow(r, Len(pool) - i)
             j == d.val + 1
         IN  SampleLoop(d.rng, [pool EXCEPT ![j] = pool[Len(pool) - i]], k, i + 1,
                        Append(result, pool[j]))

\* a sample drawn with replacement: the pool is never compacted
RECURSIVE SampleWithReplacementLoop(_, _, _, _)
SampleWithReplacementLoop(r, pool, k, result) ==
    IF Len(result) = k THEN [val |-> result, rng |-> r]
    ELSE LET d == RandBelow(r, Len(pool))
         IN  SampleWithReplacementLoop(d.rng, pool, k, Append(result, pool[d.val + 1]))

SampleWithReplacement(r, population, k) ==
    LET s == SampleWithReplacementLoop(r, population, k, <<>>)
    IN  [val |-> s.val, rng |-> Logged(s.rng, "sample")]

Sample(r, population, k) ==
    LET s == SampleLoop(r, population, k, 0, <<>>)
    IN  [val |-> s.val, rng |-> Logged(s.rng, "sample")]

Min(a, b) == IF a < b THEN a ELSE b
Max(a, b) == IF a > b THEN a ELSE b

(***************************************************************************)
(* Python floats: a fraction is the double mant * 2^-exp, mant a binary    *)
(* numeral written least significant bit first.  The product of an int and *)
(* a float is the exact product rounded to the nearest double, ties to     *)
(* even; int() truncates it.                                               *)
(***************************************************************************)
DoubleMantissaBits == 53

RECURSIVE ToNat(_)
ToNat(bits) == IF bits = <<>> THEN 0 ELSE Head(bits) + 2 * ToNat(Tail(bits))

\* the numeral of bits * n, carry going up
RECURSIVE TimesCarry(_, _, _)
TimesCarry(bits, n, carry) ==
    IF bits = <<>>
    THEN IF carry = 0 THEN <<>> ELSE <<carry % 2>> \o TimesCarry(<<>>, n, carry \div 2)
    ELSE LET v == Head(bits) * n + carry
         IN  <<v % 2>> \o TimesCarry(Tail(bits), n, v \div 2)

Times(bits, n) == TimesCarry(bits, n, 0)

\* the position of the highest one, 0 when there is none
Significant(bits) ==
    LET ones == {n \in 1..Len(bits) : bits[n] = 1}
    IN  IF ones = {} THEN 0 ELSE CHOOSE n \in ones : \A m \in ones : m <= n

RECURSIVE Incr(_)
Incr(bits) ==
    IF bits = <<>> THEN <<1>>
    ELSE IF Head(bits) = 0 THEN <<1>> \o Tail(bits)
    ELSE <<0>> \o Incr(Tail(bits))

\* the nearest numeral with at most DoubleMantissaBits significant bits
RoundToDouble(bits) ==
    LET top == Significant(bits)
        drop == top - DoubleMantissaBits
    IN  IF drop <= 0 THEN bits
        ELSE LET kept == SubSeq(bits, drop + 1, top)
                 guard == bits[drop]
                 sticky == \E n \in 1..(drop - 1) : bits[n] = 1
                 up == guard = 1 /\ (sticky \/ kept[1] = 1)
             IN  [n \in 1..drop |-> 0] \o (IF up THEN Incr(kept) ELSE kept)

\* int(n * x) for an int n >= 0 and a float x >= 0
IntOfProduct(n, x) ==
    LET product == RoundToDouble(Times(x.mant, n))
    IN  ToNat(SubSeq(product, x.exp + 1, Len(product)))

\* the exact sums and products are worked out DigitBits bits at a time
DigitBits == 10
Base == 2 ^ DigitBits

\* a numeral of bits as a numeral of digits, lowest first, and back
Digits(bits) ==
    [c \in 1..((Len(bits) + DigitBits - 1) \div DigitBits) |->
        ToNat(SubSeq(bits, DigitBits * (c - 1) + 1, Min(DigitBits * c, Len(bits))))]
Bits(digits) ==
    [n \in 1..(DigitBits * Len(digits)) |->
        (digits[(n - 1) \div DigitBits + 1] \div (2 ^ ((n - 1) % DigitBits))) % 2]

\* the numeral of a + b + carry
RECURSIVE AddDigits(_, _, _)
AddDigits(a, b, carry) ==
    IF a = <<>> /\ b = <<>> THEN (IF carry = 0 THEN <<>> ELSE <<carry>>)
    ELSE LET x == IF a = <<>> THEN 0 ELSE Head(a)
             y == IF b = <<>> THEN 0 ELSE Head(b)
             v == x + y + carry
         IN  <<v % Base>> \o AddDigits(IF a = <<>> THEN <<>> ELSE Tail(a),
                                        IF b = <<>> THEN <<>> ELSE Tail(b), v \div Base)

\* the numeral of a * n + carry, n one digit
RECURSIVE TimesDigit(_, _, _)
TimesDigit(a, n, carry) ==
    IF a = <<>> THEN (IF carry = 0 THEN <<>> ELSE <<carry>>)
    ELSE <<(Head(a) * n + carry) % Base>>
            \o TimesDigit(Tail(a), n, (Head(a) * n + carry) \div Base)

\* the numeral of a * b
RECURSIVE MulDigits(_, _)
MulDigits(a, b) ==
    IF a = <<>> THEN <<>>
    ELSE CHOOSE sum \in {AddDigits(low, high, 0) :
                            low \in {TimesDigit(b, Head(a), 0)},
                            high \in {<<0>> \o MulDigits(Tail(a), b)}} : TRUE

AddBits(a, b) ==
    CHOOSE sum \in {Bits(AddDigits(x, y, 0)) : x \in {Digits(a)}, y \in {Digits(b)}} : TRUE

MulBits(a, b) ==
    CHOOSE product \in {Bits(MulDigits(x, y)) : x \in {Digits(a)}, y \in {Digits(b)}} : TRUE

\* a float without low or high zero bits, so that equal floats are equal records
Normal(x) ==
    LET ones == {n \in 1..Len(x.mant) : x.mant[n] = 1}
        top == CHOOSE n \in ones : \A m \in ones : m <= n
        low == CHOOSE n \in ones : \A m \in ones : n <= m
        drop == Min(low - 1, x.exp)
    IN  IF ones = {} THEN [mant |-> <<>>, exp |-> 0]
        ELSE [mant |-> SubSeq(x.mant, drop + 1, top), exp |-> x.exp - drop]

\* the double nearest to bits * 2^-exp
Double(bits, exp) ==
    CHOOSE x \in {Normal([mant |-> rounded, exp |-> exp]) :
                    rounded \in {RoundToDouble(exact) : exact \in {bits}}} : TRUE

\* x * y for floats x, y >= 0
Product(x, y) ==
    CHOOSE p \in {Double(MulBits(u.mant, v.mant), u.exp + v.exp) : u \in {x}, v \in {y}} : TRUE

\* the numeral of bits * 2^k
Shifted(bits, k) == [n \in 1..k |-> 0] \o bits

\* x + y for floats x, y >= 0
Sum(x, y) ==
    CHOOSE s \in {Double(AddBits(Shifted(u.mant, Max(u.exp, v.exp) - u.exp),
                                 Shifted(v.mant, Max(u.exp, v.exp) - v.exp)),
                         Max(u.exp, v.exp)) : u \in {x}, v \in {y}} : TRUE

\* x > y for floats x, y >= 0
Greater(x, y) ==
    \E <<a, b>> \in {<<Shifted(x.mant, Max(x.exp, y.exp) - x.exp),
                       Shifted(y.mant, Max(x.exp, y.exp) - y.exp)>>} :
        LET bit(q, n) == IF n <= Len(q) THEN q[n] ELSE 0
            differ == {n \in 1..Max(Len(a), Len(b)) : bit(a, n) # bit(b, n)}
        IN  differ # {} /\ bit(a, CHOOSE n \in differ : \A m \in differ : m <= n) = 1

\* min(x, y)
MinFloat(x, y) == CHOOSE m \in {IF Greater(u, v) THEN v ELSE u : u \in {x}, v \in {y}} : TRUE

\* the bits of a binary numeral of a natural number, lowest first
RECURSIVE Binary(_)
Binary(n) == IF n = 0 THEN <<>> ELSE <<n % 2>> \o Binary(n \div 2)

\* the next k digits of the expansion of r / b (r < b) in base Base, lowest
\* first, and what is left of r after them
RECURSIVE Expansion(_, _, _)
Expansion(r, b, k) ==
    IF k = 0 THEN [digits |-> <<>>, left |-> r]
    ELSE LET rest == Expansion((r * Base) % b, b, k - 1)
         IN  [digits |-> rest.digits \o <<(r * Base) \div b>>, left |-> rest.left]

\* digits of the expansion taken before rounding: more than a double keeps
ExpansionDigits == 6

\* a / b for ints a >= 0 and b > 0: the quotient rounded to the nearest
\* double; the lowest bit tells whether the expansion goes on
Quotient(a, b) ==
    CHOOSE q \in {Double(<<IF e.left = 0 THEN 0 ELSE 1>> \o Bits(e.digits) \o Binary(a \div b),
                         DigitBits * ExpansionDigits + 1) :
                    e \in {Expansion(a % b, b, ExpansionDigits)}} : TRUE

\* the floats 0.7 and 0.3
Point7 ==
    [mant |-> <<1, 1, 0, 0, 1, 1, 0, 0, 1, 1, 0, 0, 1, 1, 0, 0, 1, 1, 0, 0, 1, 1, 0, 0, 1, 1, 0, 0, 1, 1, 0, 0, 1, 1, 0, 0, 1, 1, 0, 0, 1, 1, 0, 0, 1, 1, 0, 0, 1, 1, 0, 1>>,
     exp |-> 52]
Point3 ==
    [mant |-> <<1, 1, 0, 0, 1, 1, 0, 0, 1, 1, 0, 0, 1, 1, 0, 0, 1, 1, 0, 0, 1, 1, 0, 0, 1, 1, 0, 0, 1, 1, 0, 0, 1, 1, 0, 0, 1, 1, 0, 0, 1, 1, 0, 0, 1, 1, 0, 0, 1, 1, 0, 0, 1>>,
     exp |-> 54]

\* the floats 0.0, 0.5, 1.0, 0.6666666666666666 and 0.05
Zero == [mant |-> <<>>, exp |-> 0]
Half == [mant |-> <<1>>, exp |-> 1]
One == [mant |-> <<1>>, exp |-> 0]
TwoThirds == [mant |-> [n \in 1..DoubleMantissaBits |-> n % 2], exp |-> DoubleMantissaBits]
DefaultFraction ==
    [mant |-> <<1, 0, 1, 1, 0, 0, 1, 1, 0, 0, 1, 1, 0, 0, 1, 1, 0, 0, 1, 1, 0, 0, 1, 1, 0, 0, 1, 1, 0, 0, 1, 1, 0, 0, 1, 1, 0, 0, 1, 1, 0, 0, 1, 1, 0, 0, 1, 1, 0, 0, 1, 1>>,
     exp |-> 56]

Put(f, k, v) == [x \in DOMAIN f \cup {k} |-> IF x = k THEN v ELSE f[x]]

(***************************************************************************)
(* SymbolRenamer: the rewrite of one file's content                        *)
(***************************************************************************)
\* re.sub of pattern(s, i) (the index after the match at i, or 0) by repl(s, i, e)
SubEach(s, ends, repl) == SubFrom(s, ends, repl, 1)

\* \bfunc\s+OLD\s*\(   matched at i
GoFuncNamed(s, i, old) ==
    LET j == SkipSpaces(s, i + 1)
        m == SkipSpaces(s, j + Len(old))
    IN  IF /\ Boundary(s, i) /\ At(s, i) = "func" /\ j > i + 1
           /\ MatchLit(s, j, old) /\ At(s, m) = "("
        THEN m + 1 ELSE 0

\* \bfunc\s+\([^)]+\)\s+OLD\s*\(   matched at i
GoMethodNamed(s, i, old) ==
    LET j == SkipSpaces(s, i + 1)
        c == FindAtom(s, j + 1, ")")
        p == SkipSpaces(s, c + 1)
        m == SkipSpaces(s, p + Len(old))
    IN  IF /\ Boundary(s, i) /\ At(s, i) = "func" /\ j > i + 1 /\ At(s, j) = "("
           /\ c > j + 1 /\ p > c + 1 /\ MatchLit(s, p, old) /\ At(s, m) = "("
        THEN m + 1 ELSE 0

\* \btype\s+OLD\s+   matched at i
GoTypeNamed(s, i, old) ==
    LET j == SkipSpaces(s, i + 1)
        m == SkipSpaces(s, j + Len(old))
    IN  IF /\ Boundary(s, i) /\ At(s, i) = "type" /\ j > i + 1
           /\ MatchLit(s, j, old) /\ m > j + Len(old)
        THEN m ELSE 0

\* the method substitution: lambda m: m.group(0).replace(old_name, new_name)
GoMethodSub(s, old_name, new_name) ==
    LET ends == [i \in 1..Len(s) |-> GoMethodNamed(s, i, old_name)]
    IN  SubEach(s, ends, [i \in 1..Len(s) |->
            IF ends[i] > 0 THEN StrReplace(Slice(s, i, ends[i]), old_name, new_name)
            ELSE <<>>])

_rename_go_symbol(content, old_name, new_name) ==
    LET c1 == SubEach(content,
                  [i \in 1..Len(content) |-> GoFuncNamed(content, i, old_name)],
                  [i \in 1..Len(content) |-> <<"func", " ">> \o new_name \o <<"(">>])
        c2 == GoMethodSub(c1, old_name, new_name)
        c3 == SubEach(c2,
                  [i \in 1..Len(c2) |-> GoTypeNamed(c2, i, old_name)],
                  [i \in 1..Len(c2) |-> <<"type", " ">> \o new_name \o <<" ">>])
    IN  SubWord(c3, old_name, new_name)

\* \bclass\s+OLD\s*[:(]   matched at i
PyClassNamed(s, i, old) ==
    LET j == SkipSpaces(s, i + 1)
        m == SkipSpaces(s, j + Len(old))
    IN  IF /\ Boundary(s, i) /\ At(s, i) = "class" /\ j > i + 1
           /\ MatchLit(s, j, old) /\ At(s, m) \in {":", "("}
        THEN m + 1 ELSE 0

\* \bdef\s+OLD\s*\(   matched at i
PyDefNamed(s, i, old) ==
    LET j == SkipSpaces(s, i + 1)
        m == SkipSpaces(s, j + Len(old))
    IN  IF /\ Boundary(s, i) /\ At(s, i) = "def" /\ j > i + 1
           /\ MatchLit(s, j, old) /\ At(s, m) = "("
        THEN m + 1 ELSE 0

_rename_python_symbol(content, old_name, new_name) ==
    LET e1 == [i \in 1..Len(content) |-> PyClassNamed(content, i, old_name)]
        c1 == SubEach(content, e1, [i \in 1..Len(content) |->
                  IF e1[i] > 0 THEN StrReplace(Slice(content, i, e1[i]), old_name, new_name)
                  ELSE <<>>])
        c2 == SubEach(c1,
                  [i \in 1..Len(c1) |-> PyDefNamed(c1, i, old_name)],
                  [i \in 1..Len(c1) |-> <<"def", " ">> \o new_name \o <<"(">>])
    IN  SubWord(c2, old_name, new_name)

_rename_cpp_symbol(content, old_name, new_name) == SubWord(content, old_name, new_name)

\* the content _rename_in_file writes
RenamedContent(content, language, old_name, new_name) ==
    IF language = "go" THEN _rename_go_symbol(content, old_name, new_name)
    ELSE IF language = "python" THEN _rename_python_symbol(content, old_name, new_name)
    ELSE IF language \in {"cpp", "c"} THEN _rename_cpp_symbol(content, old_name, new_name)
    ELSE SubWord(content, old_name, new_name)

suffixes == <<"Renamed", "Legacy", "V2", "Updated", "New", "Modified">>
prefixes == <<"Old", "Legacy", "Compat", "Wrapper">>

\* a generator of names that draws a suffix and a prefix first and flips after
_generate_new_name_choosing_first(r, original) ==
    LET s == Choice(r, suffixes)
        p == RandBelow(s.rng, Len(prefixes))
        flip == RandomBelow07(s.rng)
    IN  IF flip.val
        THEN [val |-> original \o <<"_", s.val>>, rng |-> flip.rng]
        ELSE [val |-> <<prefixes[p.val + 1], "_">> \o original, rng |-> flip.rng]

\* one flip, then one choice from the vocabulary the flip selects
_generate_new_name(r, original) ==
    LET flip == RandomBelow07(r)
    IN  IF flip.val
        THEN LET c == Choice(flip.rng, suffixes)
             IN  [val |-> original \o <<"_", c.val>>, rng |-> c.rng]
        ELSE LET c == Choice(flip.rng, prefixes)
             IN  [val |-> <<c.val, "_">> \o original, rng |-> c.rng]


(***************************************************************************)
(* APIDriftSimulator: the rewrite of one file's content                    *)
(***************************************************************************)
\* (func\s+OLD\s*\([^)]*\)\s*[^{]*\{[^}]*\})   matched at i
GoDefSpan(s, i, old) ==
    LET j == SkipSpaces(s, i + 1)
        m == SkipSpaces(s, j + Len(old))
        c == FindAtom(s, m + 1, ")")
        b == FindAtom(s, c + 1, "{")
        e == FindAtom(s, b + 1, "}")
    IN  IF /\ At(s, i) = "func" /\ j > i + 1 /\ MatchLit(s, j, old) /\ At(s, m) = "("
           /\ c > 0 /\ b > 0 /\ e > 0
        THEN e + 1 ELSE 0

\* the index after the line that holds position i
EndOfLine(s, i) == LET n == FindAtom(s, i, "\n") IN IF n = 0 THEN Len(s) + 1 ELSE n

\* (?:    [^\n]*|\n)*   from r
RECURSIVE PyBlock(_, _)
PyBlock(s, r) ==
    IF At(s, r) = "    " THEN PyBlock(s, EndOfLine(s, r + 1))
    ELSE IF At(s, r) = "\n" THEN PyBlock(s, r + 1)
    ELSE r

\* (def\s+OLD\s*\([^)]*\):[^\n]*(?:\n(?:    [^\n]*|\n)*)*)   matched at i
PyDefSpan(s, i, old) ==
    LET j == SkipSpaces(s, i + 1)
        m == SkipSpaces(s, j + Len(old))
        c == FindAtom(s, m + 1, ")")
        l == EndOfLine(s, c + 2)
    IN  IF /\ At(s, i) = "def" /\ j > i + 1 /\ MatchLit(s, j, old) /\ At(s, m) = "("
           /\ c > 0 /\ At(s, c + 1) = ":"
        THEN PyBlock(s, l) ELSE 0

\* re.search: the leftmost match of ends, as [start, end], start = 0 if none
RECURSIVE SearchFrom(_, _, _)
SearchFrom(s, ends, i) ==
    IF i > Len(s) THEN [start |-> 0, end |-> 0]
    ELSE IF ends[i] > 0 THEN [start |-> i, end |-> ends[i]]
    ELSE SearchFrom(s, ends, i + 1)

\* what both _add_*_v2_function do with the span found: the copy with the
\* declaration renamed by str.replace, put after every occurrence of the span
AddV2(content, match, kw, old_symbol, new_symbol) ==
    IF match.start = 0 THEN content
    ELSE LET original_func == Slice(content, match.start, match.end)
             v2_func == StrReplace(original_func, <<kw, " ">> \o old_symbol,
                                   <<kw, " ">> \o new_symbol)
         IN  StrReplace(content, original_func, original_func \o <<"\n", "\n">> \o v2_func)

_add_go_v2_function(content, old_symbol, new_symbol) ==
    AddV2(content,
          SearchFrom(content, [i \in 1..Len(content) |-> GoDefSpan(content, i, old_symbol)], 1),
          "func", old_symbol, new_symbol)

_add_python_v2_function(content, old_symbol, new_symbol) ==
    AddV2(content,
          SearchFrom(content, [i \in 1..Len(content) |-> PyDefSpan(content, i, old_symbol)], 1),
          "def", old_symbol, new_symbol)

\* the content _create_v2_definition writes
V2Content(content, language, old_symbol, new_symbol) ==
    IF language = "go" THEN _add_go_v2_function(content, old_symbol, new_symbol)
    ELSE IF language = "python" THEN _add_python_v2_function(content, old_symbol, new_symbol)
    ELSE content

\* f"{symbol}V2"
V2Name(symbol) == symbol \o <<"V2">>

\* a pool that admits every name with an uppercase first character
DriftCandidateOfAnyLength(s) == UpperInitial(s[1])

\* len(s) > 3 and s[0].isupper()
DriftCandidate(s) == StrLen(s) > 3 /\ UpperInitial(s[1])


(***************************************************************************)
(* The corpora: directory trees (in os.walk order) with their files        *)
(***************************************************************************)
\* Scenario A: decl.go declares Foo, use.go only calls it
CorpusA ==
    [roots |-> <<<<"src", "/", "a">>>>,
     tree |-> <<
        [root |-> <<"src", "/", "a">>,
         filenames |-> <<<<"decl", ".", "go">>, <<"use", ".", "go">>>>] >>,
     content |->
        (<<"src", "/", "a", "/", "decl", ".", "go">> :>
            <<"func", " ", "Foo", "(", ")", " ", "{", "\n", "}", "\n">>)
        @@
        (<<"src", "/", "a", "/", "use", ".", "go">> :>
            <<"var", " ", "x", " ", "=", " ", "Foo", "(", ")", "\n">>)]

\* Scenario B with a name the drift pool admits: f1.go defines Bars, f2.go, f3.go and f4.go call it
CorpusB ==
    [roots |-> <<<<"src", "/", "b">>>>,
     tree |-> <<
        [root |-> <<"src", "/", "b">>,
         filenames |-> <<<<"f1", ".", "go">>, <<"f2", ".", "go">>, <<"f3", ".", "go">>, <<"f4", ".", "go">>>>] >>,
     content |->
        (<<"src", "/", "b", "/", "f1", ".", "go">> :>
            <<"func", " ", "Bars", "(", ")", " ", "{", "\n", "}", "\n">>)
        @@
        (<<"src", "/", "b", "/", "f2", ".", "go">> :>
            <<"var", " ", "x", " ", "=", " ", "Bars", "(", ")", "\n">>)
        @@
        (<<"src", "/", "b", "/", "f3", ".", "go">> :>
            <<"var", " ", "y", " ", "=", " ", "Bars", "(", ")", "\n">>)
        @@
        (<<"src", "/", "b", "/", "f4", ".", "go">> :>
            <<"var", " ", "z", " ", "=", " ", "Bars", "(", ")", "\n">>)]

\* three packages that each declare Init and Load
CorpusC ==
    [roots |-> <<<<"src", "/", "c">>>>,
     tree |-> <<
        [root |-> <<"src", "/", "c">>,
         filenames |-> <<<<"p1", ".", "go">>, <<"p2", ".", "go">>, <<"p3", ".", "go">>>>] >>,
     content |->
        (<<"src", "/", "c", "/", "p1", ".", "go">> :>
            <<"func", " ", "Init", "(", ")", " ", "{", "\n", "}", "\n", "func", " ", "Load", "(", ")", " ", "{", "\n", "}", "\n">>)
        @@
        (<<"src", "/", "c", "/", "p2", ".", "go">> :>
            <<"func", " ", "Init", "(", ")", " ", "{", "\n", "}", "\n", "func", " ", "Load", "(", ")", " ", "{", "\n", "}", "\n">>)
        @@
        (<<"src", "/", "c", "/", "p3", ".", "go">> :>
            <<"func", " ", "Load", "(", ")", " ", "{", "\n", "}", "\n", "func", " ", "Init", "(", ")", " ", "{", "\n", "}", "\n">>)]

\* a method on a receiver whose type name contains the method name, and a body with a nested block
CorpusD ==
    [roots |-> <<<<"src", "/", "d">>>>,
     tree |-> <<
        [root |-> <<"src", "/", "d">>,
         filenames |-> <<<<"h", ".", "go">>, <<"l", ".", "go">>>>] >>,
     content |->
        (<<"src", "/", "d", "/", "h", ".", "go">> :>
            <<"type", " ", "Handle", "r", " ", "struct", " ", "{", "\n", "}", "\n", "func", " ", "(", "h", " ", "*", "Handle", "r", ")", " ", "Handle", "(", ")", " ", "{", "\n", "}", "\n">>)
        @@
        (<<"src", "/", "d", "/", "l", ".", "go">> :>
            <<"func", " ", "Load", "(", ")", " ", "{", "\n", " ", "if", " ", "x", " ", "{", "\n", " ", "}", "\n", " ", "y", "(", ")", "\n", "}", "\n">>)]

\* Python: a name that is another name plus a suffix of the renamer vocabulary; a class with a method
CorpusE ==
    [roots |-> <<<<"src", "/", "e">>>>,
     tree |-> <<
        [root |-> <<"src", "/", "e">>,
         filenames |-> <<<<"m", ".", "py">>, <<"n", ".", "py">>>>] >>,
     content |->
        (<<"src", "/", "e", "/", "m", ".", "py">> :>
            <<"def", " ", "Foo", "(", ")", ":", "\n", "    ", "pass", "\n", "\n", "def", " ", "Foo", "_", "V2", "(", ")", ":", "\n", "    ", "pass", "\n">>)
        @@
        (<<"src", "/", "e", "/", "n", ".", "py">> :>
            <<"class", " ", "Conf", ":", "\n", "    ", "def", " ", "Load", "(", "self", ")", ":", "\n", "    ", "    ", "pass", "\n", "\n", "Limit", " ", "=", " ", "1", "\n">>)]

\* a vendored directory with a direct child and a deeper file, and a test file
CorpusF ==
    [roots |-> <<<<"src", "/", "f">>>>,
     tree |-> <<
        [root |-> <<"src", "/", "f">>,
         filenames |-> <<<<"main", ".", "go">>>>],
        [root |-> <<"src", "/", "f", "/", "vendor">>,
         filenames |-> <<<<"lib", ".", "go">>>>],
        [root |-> <<"src", "/", "f", "/", "vendor", "/", "sub">>,
         filenames |-> <<<<"deep", ".", "go">>>>],
        [root |-> <<"src", "/", "f", "/", "pkg">>,
         filenames |-> <<<<"handler", "_test", ".", "go">>, <<"api", ".", "go">>>>] >>,
     content |->
        (<<"src", "/", "f", "/", "main", ".", "go">> :>
            <<"func", " ", "Run", "(", ")", " ", "{", "\n", "}", "\n">>)
        @@
        (<<"src", "/", "f", "/", "vendor", "/", "lib", ".", "go">> :>
            <<"func", " ", "Init", "(", ")", " ", "{", "\n", "}", "\n">>)
        @@
        (<<"src", "/", "f", "/", "vendor", "/", "sub", "/", "deep", ".", "go">> :>
            <<"func", " ", "Load", "(", ")", " ", "{", "\n", "}", "\n">>)
        @@
        (<<"src", "/", "f", "/", "pkg", "/", "handler", "_test", ".", "go">> :>
            <<"func", " ", "Conf", "(", ")", " ", "{", "\n", "}", "\n">>)
        @@
        (<<"src", "/", "f", "/", "pkg", "/", "api", ".", "go">> :>
            <<"func", " ", "Load", "(", ")", " ", "{", "\n", "}", "\n">>)]

\* C++ and JavaScript: languages without a definition pattern, or without an extractor
CorpusG ==
    [roots |-> <<<<"src", "/", "g">>>>,
     tree |-> <<
        [root |-> <<"src", "/", "g">>,
         filenames |-> <<<<"conf", ".", "h">>, <<"conf", ".", "cpp">>, <<"app", ".", "js">>>>] >>,
     content |->
        (<<"src", "/", "g", "/", "conf", ".", "h">> :>
            <<"class", " ", "Conf", " ", "{", "\n", "}", ";", "\n">>)
        @@
        (<<"src", "/", "g", "/", "conf", ".", "cpp">> :>
            <<"struct", " ", "Conf", " ", "{", "\n", "}", ";", "\n", "int", " ", "Load", "(", "int", " ", "x", ")", " ", "{", "\n", "}", "\n">>)
        @@
        (<<"src", "/", "g", "/", "app", ".", "js">> :>
            <<"func", "tion", " ", "Load", "(", ")", " ", "{", "\n", "}", "\n">>)]

\* five packages that each declare Load: four usage files, of which two are migrated
CorpusH ==
    [roots |-> <<<<"src", "/", "h">>>>,
     tree |-> <<
        [root |-> <<"src", "/", "h">>,
         filenames |-> <<<<"q1", ".", "go">>, <<"q2", ".", "go">>, <<"q3", ".", "go">>, <<"q4", ".", "go">>, <<"q5", ".", "go">>>>] >>,
     content |->
        (<<"src", "/", "h", "/", "q1", ".", "go">> :>
            <<"func", " ", "Load", "(", ")", " ", "{", "\n", "}", "\n">>)
        @@
        (<<"src", "/", "h", "/", "q2", ".", "go">> :>
            <<"func", " ", "Load", "(", ")", " ", "{", "\n", "}", "\n">>)
        @@
        (<<"src", "/", "h", "/", "q3", ".", "go">> :>
            <<"func", " ", "Load", "(", ")", " ", "{", "\n", "}", "\n">>)
        @@
        (<<"src", "/", "h", "/", "q4", ".", "go">> :>
            <<"func", " ", "Load", "(", ")", " ", "{", "\n", "}", "\n">>)
        @@
        (<<"src", "/", "h", "/", "q5", ".", "go">> :>
            <<"func", " ", "Load", "(", ")", " ", "{", "\n", "}", "\n">>)]

\* two overlapping roots: the walk of src/i and the walk of src/i/sub both reach sub/b.go
CorpusI ==
    [roots |-> <<<<"src", "/", "i">>, <<"src", "/", "i", "/", "sub">>>>,
     tree |-> <<
        [root |-> <<"src", "/", "i">>,
         filenames |-> <<<<"a", ".", "go">>>>],
        [root |-> <<"src", "/", "i", "/", "sub">>,
         filenames |-> <<<<"b", ".", "go">>>>] >>,
     content |->
        (<<"src", "/", "i", "/", "a", ".", "go">> :>
            <<"func", " ", "Init", "(", ")", " ", "{", "\n", "}", "\n">>)
        @@
        (<<"src", "/", "i", "/", "sub", "/", "b", ".", "go">> :>
            <<"func", " ", "Init", "(", ")", " ", "{", "\n", "}", "\n", "func", " ", "Conf", "(", ")", " ", "{", "\n", "}", "\n">>)]

\* Python: an assignment inside a function body and one at module level
CorpusJ ==
    [roots |-> <<<<"src", "/", "j">>>>,
     tree |-> <<
        [root |-> <<"src", "/", "j">>,
         filenames |-> <<<<"s", ".", "py">>>>] >>,
     content |->
        (<<"src", "/", "j", "/", "s", ".", "py">> :>
            <<"def", " ", "Load", "(", ")", ":", "\n", "    ", "Limit", " ", "=", " ", "1", "\n", "\n", "Conf", " ", "=", " ", "2", "\n">>)]

\* a working directory whose src has no directory: nothing to index
CorpusK ==
    [roots |-> <<>>,
     tree |-> <<
 >>,
     content |->
        << >>]

Corpora == <<CorpusA, CorpusB, CorpusC, CorpusD, CorpusE, CorpusF, CorpusG, CorpusH, CorpusI, CorpusJ, CorpusK>>

Paths(c) == DOMAIN Corpora[c].content

(***************************************************************************)
(* State                                                                   *)
(***************************************************************************)
VARIABLES
    corpus,            \* which corpus the run works on
    seed,              \* the seed of the run
    readonly,          \* the files that cannot be opened for writing
    unreadable,        \* the files that cannot be opened for reading
    repos_yaml,        \* the file repos.yaml of the working directory
    config,            \* LegacyTransformer.config
    skipped,           \* the operations that returned because no index was built
    work,              \* the working directory of PatchValidator: src, transforms, tasks, scoring
    as_found,          \* the working directory as validate_and_score found it
    backup_dir,        \* PatchValidator.backup_dir and what is under it
    patch_applied,     \* what apply_patch_with_timeout returned
    ground_truth,      \* the ground truth file of an api_upgrade task
    at_callsite,       \* APIUpgradeScorer.score: the callsite the loop is at
    actual_upgrades,   \* APIUpgradeScorer.score: actual_upgrades
    preserved_legacy,  \* APIUpgradeScorer.score: preserved_legacy
    score_result,      \* the ScoreResult that score returned
    write_log,         \* the symbol each write of the running operation was made for
    disk,              \* path -> content
    rng,               \* the shared generator: its state and the calls made on it
    pc,                \* where the run is
    files,             \* FileIndex.files
    symbol_keys,       \* the keys of FileIndex.symbols_to_files, in insertion order
    symbols_to_files,  \* FileIndex.symbols_to_files
    percentage,        \* the argument of rename_symbols, a float
    symbols_to_rename, \* the sample of rename_symbols
    rename_map,        \* SymbolRenamer.rename_map
    pending,           \* the files of the current symbol not yet iterated
    functions_per_repo, \* the argument of apply_api_drift
    selected_symbols,  \* the sample of apply_api_drift
    symbol_files,      \* list(symbols_to_files[symbol]) of the current symbol
    files_to_migrate,  \* the sample of usage files of the current symbol
    api_migrations,    \* APIDriftSimulator.api_migrations
    at,                \* the loop positions: [sym, file]
    files_changed,     \* the running operation's files_changed
    errors,            \* the running operation's errors
    rename_result,     \* the TransformResult rename_symbols returned
    drift_result,      \* the TransformResult apply_api_drift returned
    before_drift,      \* the disk when apply_api_drift was called
    run,               \* 1 in the first process, 2 in a second one started by main
    first              \* what the first process left, once a second one has started

index_vars == <<files, symbol_keys, symbols_to_files>>
input_vars == <<corpus, seed, readonly, unreadable, repos_yaml>>
rename_vars == <<percentage, symbols_to_rename, rename_map, pending, rename_result>>
drift_vars == <<functions_per_repo, selected_symbols, symbol_files, files_to_migrate,
                api_migrations, drift_result, before_drift>>

validator_vars == <<work, as_found, backup_dir, patch_applied>>
scorer_vars == <<ground_truth, at_callsite, actual_upgrades, preserved_legacy, score_result>>
run_vars == <<run, first, config, skipped, validator_vars, scorer_vars>>

vars == <<input_vars, run_vars, disk, rng, pc, index_vars, rename_vars, drift_vars,
          at, files_changed, errors, write_log>>

MaxSeed == 3
MaxCount == 2
Fractions == {Zero, Half, TwoThirds, One}

\* repos.yaml: absent, not parseable, or the mapping yaml.safe_load returns
NoFile == [exists |-> FALSE]
Unparseable == [exists |-> TRUE, parses |-> FALSE]
Parsed(document) == [exists |-> TRUE, parses |-> TRUE, document |-> document]

DefaultCount == 10

\* the fallback configuration; the keys no modelled operation reads are left out
DefaultConfig ==
    [transforms |-> [symbol_rename_percentage |-> DefaultFraction,
                     api_drift_functions |-> DefaultCount]]

\* the files the model tries: none, a broken one, two complete ones, one without
\* the transforms section, and one for each key of the section left out
YamlFiles ==
    {NoFile, Unparseable}
    \cup {Parsed([transforms |-> [symbol_rename_percentage |-> Half, api_drift_functions |-> 1]]),
          Parsed([transforms |-> [symbol_rename_percentage |-> One, api_drift_functions |-> MaxCount]])}
    \cup {Parsed([repositories |-> <<>>]),
          Parsed([transforms |-> [api_drift_functions |-> 1]]),
          Parsed([transforms |-> [symbol_rename_percentage |-> Half]])}

NoResult == [success |-> TRUE, files_changed |-> 0, errors |-> <<>>, metadata |-> <<>>]

\* the state of a process before its first operation
Constructed ==
    /\ disk = Corpora[corpus].content
    /\ rng = RngSeed(seed)
    /\ config = <<>>
    /\ skipped = <<>>
    /\ files = <<>>
    /\ symbol_keys = <<>>
    /\ symbols_to_files = <<>>
    /\ percentage = Zero
    /\ symbols_to_rename = <<>>
    /\ rename_map = <<>>
    /\ pending = {}
    /\ functions_per_repo = 0
    /\ selected_symbols = <<>>
    /\ symbol_files = <<>>
    /\ files_to_migrate = <<>>
    /\ api_migrations = <<>>
    /\ at = [sym |-> 0, file |-> 0]
    /\ files_changed = 0
    /\ errors = <<>>
    /\ write_log = <<>>
    /\ rename_result = NoResult
    /\ drift_result = NoResult
    /\ before_drift = <<>>
    /\ run = 1
    /\ first = <<>>

\* a directory tree: the top-level directories there are and the files
\* under them, each <<directory, name, text>>
NoTree == [dirs |-> {}, files |-> {}]

\* PatchValidator.__init__: backup_dir is None
NoBackup == [made |-> FALSE, tree |-> NoTree]

\* no PatchValidator in the run
NoValidator ==
    /\ work = NoTree
    /\ as_found = NoTree
    /\ backup_dir = NoBackup
    /\ patch_applied = FALSE

\* no api_upgrade task is being scored
NoScorer ==
    /\ ground_truth = NoFile
    /\ at_callsite = 0
    /\ actual_upgrades = 0
    /\ preserved_legacy = 0
    /\ score_result = NoResult

\* the classes of the engine driven directly, as the tests drive them: a
\* FileIndex over the roots of a corpus, a generator of the seed; at most
\* one file of the corpus cannot be written or cannot be read
Init ==
    /\ corpus \in 1..Len(Corpora)
    /\ seed \in 0..MaxSeed
    /\ readonly \in {{}} \cup {{p} : p \in Paths(corpus)}
    /\ unreadable \in IF readonly = {} THEN {{}} \cup {{p} : p \in Paths(corpus)} ELSE {{}}
    /\ repos_yaml = NoFile
    /\ pc = "start"
    /\ Constructed
    /\ NoValidator
    /\ NoScorer

\* a loop body that starts a new set for a symbol on every file that lists it
IndexFileReplacingSets(ix, file_path, content) ==
    LET file_info == _analyze_file(file_path, content)
        syms == {file_info.symbols[n] : n \in 1..Len(file_info.symbols)}
        new == SelectSeq(file_info.symbols, LAMBDA s : s \notin DOMAIN ix.sets)
    IN  [files |-> Put(ix.files, file_path, file_info),
         keys |-> ix.keys \o new,
         sets |-> [s \in DOMAIN ix.sets \cup syms |->
                     IF s \in syms THEN {file_path} ELSE ix.sets[s]]]

\* one pass of the loop body of build_index over file_path
IndexFile(ix, file_path, content) ==
    LET file_info == _analyze_file(file_path, content)
        new == SelectSeq(file_info.symbols, LAMBDA s : s \notin DOMAIN ix.sets)
        \* a symbol a file lists twice is inserted once
        RECURSIVE Dedup(_)
        Dedup(q) == IF q = <<>> THEN <<>>
                    ELSE LET r == Dedup(SubSeq(q, 1, Len(q) - 1))
                         IN  IF \E n \in 1..Len(r) : r[n] = q[Len(q)] THEN r
                             ELSE Append(r, q[Len(q)])
        syms == {file_info.symbols[n] : n \in 1..Len(file_info.symbols)}
    IN  [files |-> Put(ix.files, file_path, file_info),
         keys |-> ix.keys \o Dedup(new),
         sets |-> [s \in DOMAIN ix.sets \cup syms |->
                     (IF s \in DOMAIN ix.sets THEN ix.sets[s] ELSE {})
                     \cup (IF s \in syms THEN {file_path} ELSE {})]]

\* a failed analysis that leaves a record without symbols in the file table
TryIndexFileKeepsRecord(ix, file_path, contents, cannot_read) ==
    IF file_path \in cannot_read
    THEN [ix EXCEPT !.files = Put(@, file_path,
                [path |-> file_path, language |-> _detect_language(file_path), symbols |-> <<>>])]
    ELSE IndexFile(ix, file_path, contents[file_path])

\* lines 64-75: open() raises for a file that cannot be read; the exception
\* is caught and the file is passed over
TryIndexFile(ix, file_path, contents, cannot_read) ==
    IF file_path \in cannot_read THEN ix
    ELSE IndexFile(ix, file_path, contents[file_path])

RECURSIVE IndexFiles(_, _, _, _)
IndexFiles(ix, paths, contents, cannot_read) ==
    IF paths = <<>> THEN ix
    ELSE IndexFiles(TryIndexFile(ix, Head(paths), contents, cannot_read), Tail(paths),
                    contents, cannot_read)

\* os.path.exists(root_dir)
Exists(tree, root_dir) ==
    \E n \in 1..Len(tree) :
        tree[n].root = root_dir \/ StartsWith(tree[n].root, root_dir \o <<"/">>)

\* FileIndex.build_index
build_index(root_dirs, tree, contents, cannot_read) ==
    LET found == Flatten([n \in 1..Len(root_dirs) |->
                    IF Exists(tree, root_dirs[n]) THEN _find_source_files(tree, root_dirs[n])
                    ELSE <<>>])
    IN  IndexFiles([files |-> <<>>, keys |-> <<>>, sets |-> <<>>], found, contents, cannot_read)

BuildIndex ==
    /\ pc = "start"
    /\ LET ix == build_index(Corpora[corpus].roots, Corpora[corpus].tree, disk, unreadable)
       IN  /\ files' = ix.files
           /\ symbol_keys' = ix.keys
           /\ symbols_to_files' = ix.sets
    /\ pc' = "indexed"
    /\ UNCHANGED <<input_vars, run_vars, write_log, disk, rng, rename_vars, drift_vars, at, files_changed, errors>>

(***************************************************************************)
(* SymbolRenamer.rename_symbols                                            *)
(***************************************************************************)
\* lines 301-306: the sample
RenameStart(pct) ==
    /\ pc = "indexed"
    /\ LET all_symbols == symbol_keys
           symbol_count == Max(1, IntOfProduct(Len(all_symbols), pct))
           s == Sample(rng, all_symbols, Min(symbol_count, Len(all_symbols)))
       IN  /\ symbols_to_rename' = s.val
           /\ rng' = s.rng
    /\ percentage' = pct
    /\ rename_map' = <<>>
    /\ files_changed' = 0
    /\ errors' = <<>>
    /\ at' = [sym |-> 1, file |-> 0]
    /\ pending' = {}
    /\ write_log' = <<>>
    /\ pc' = "rename_symbol"
    /\ UNCHANGED <<input_vars, run_vars, disk, index_vars, rename_result, drift_vars>>

\* a map that is keyed by the generated name
RenameSymbolKeyedByNewName ==
    /\ pc = "rename_symbol"
    /\ at.sym <= Len(symbols_to_rename)
    /\ LET symbol == symbols_to_rename[at.sym]
           new_name == _generate_new_name(rng, symbol)
       IN  /\ rename_map' = Put(rename_map, new_name.val, symbol)
           /\ rng' = new_name.rng
           /\ pending' = symbols_to_files[symbol]
    /\ pc' = "rename_files"
    /\ UNCHANGED <<input_vars, run_vars, write_log, disk, index_vars, percentage, symbols_to_rename, rename_result,
                   drift_vars, at, files_changed, errors>>

\* lines 308-314: the next symbol gets its name
RenameSymbol ==
    /\ pc = "rename_symbol"
    /\ at.sym <= Len(symbols_to_rename)
    /\ LET symbol == symbols_to_rename[at.sym]
           new_name == _generate_new_name(rng, symbol)
       IN  /\ rename_map' = Put(rename_map, symbol, new_name.val)
           /\ rng' = new_name.rng
           /\ pending' = symbols_to_files[symbol]
    /\ pc' = "rename_files"
    /\ UNCHANGED <<input_vars, run_vars, write_log, disk, index_vars, percentage, symbols_to_rename, rename_result,
                   drift_vars, at, files_changed, errors>>

\* a rewrite that also brings the file's record up to date
RenameFileReindexing ==
    /\ pc = "rename_files"
    /\ \E file_path \in pending :
        LET symbol == symbols_to_rename[at.sym]
            written == file_path \notin readonly
            content == RenamedContent(disk[file_path], files[file_path].language,
                                      symbol, rename_map[symbol])
        IN  /\ disk' = IF written THEN [disk EXCEPT ![file_path] = content] ELSE disk
            /\ files' = IF written
                        THEN [files EXCEPT ![file_path] = _analyze_file(file_path, content)]
                        ELSE files
            /\ files_changed' = IF written THEN files_changed + 1 ELSE files_changed
            /\ write_log' = IF written THEN Append(write_log, symbol) ELSE write_log
            /\ pending' = pending \ {file_path}
            /\ IF pending' = {}
               THEN pc' = "rename_symbol" /\ at' = [at EXCEPT !.sym = @ + 1]
               ELSE UNCHANGED <<pc, at>>
    /\ UNCHANGED <<input_vars, run_vars, rng, symbol_keys, symbols_to_files, percentage,
                   symbols_to_rename, rename_map, rename_result, drift_vars, errors>>

\* a failed write that ends the loop over the symbol's files
RenameFileStopsAtFailure ==
    /\ pc = "rename_files"
    /\ \E file_path \in pending :
        LET symbol == symbols_to_rename[at.sym]
            written == file_path \notin readonly
            content == RenamedContent(disk[file_path], files[file_path].language,
                                      symbol, rename_map[symbol])
        IN  /\ disk' = IF written THEN [disk EXCEPT ![file_path] = content] ELSE disk
            /\ files_changed' = IF written THEN files_changed + 1 ELSE files_changed
            /\ write_log' = IF written THEN Append(write_log, symbol) ELSE write_log
            /\ pending' = IF written THEN pending \ {file_path} ELSE {}
            /\ IF pending' = {}
               THEN pc' = "rename_symbol" /\ at' = [at EXCEPT !.sym = @ + 1]
               ELSE UNCHANGED <<pc, at>>
    /\ UNCHANGED <<input_vars, run_vars, rng, index_vars, percentage, symbols_to_rename, rename_map,
                   rename_result, drift_vars, errors>>

\* a step that also rewrites every other file under the roots that holds
\* the symbol as a whole word
RenameFileAndEveryUser ==
    /\ pc = "rename_files"
    /\ \E file_path \in pending :
        LET symbol == symbols_to_rename[at.sym]
            written == file_path \notin readonly
            content == RenamedContent(disk[file_path], files[file_path].language,
                                      symbol, rename_map[symbol])
        IN  /\ disk' = [F \in DOMAIN disk |->
                            IF F = file_path
                            THEN (IF written THEN content ELSE disk[F])
                            ELSE SubWord(disk[F], symbol, rename_map[symbol])]
            /\ files_changed' = IF written THEN files_changed + 1 ELSE files_changed
            /\ write_log' = IF written THEN Append(write_log, symbol) ELSE write_log
            /\ pending' = pending \ {file_path}
            /\ IF pending' = {}
               THEN pc' = "rename_symbol" /\ at' = [at EXCEPT !.sym = @ + 1]
               ELSE UNCHANGED <<pc, at>>
    /\ UNCHANGED <<input_vars, run_vars, rng, index_vars, percentage, symbols_to_rename, rename_map,
                   rename_result, drift_vars, errors>>

\* lines 315-317 and _rename_in_file: one file of the symbol, in the order
\* the set yields them; a write that raises is caught and answers False
RenameFile ==
    /\ pc = "rename_files"
    /\ \E file_path \in pending :
        LET symbol == symbols_to_rename[at.sym]
            written == file_path \notin readonly
            content == RenamedContent(disk[file_path], files[file_path].language,
                                      symbol, rename_map[symbol])
        IN  /\ disk' = IF written THEN [disk EXCEPT ![file_path] = content] ELSE disk
            /\ files_changed' = IF written THEN files_changed + 1 ELSE files_changed
            /\ write_log' = IF written THEN Append(write_log, symbol) ELSE write_log
            /\ pending' = pending \ {file_path}
            /\ IF pending' = {}
               THEN pc' = "rename_symbol" /\ at' = [at EXCEPT !.sym = @ + 1]
               ELSE UNCHANGED <<pc, at>>
    /\ UNCHANGED <<input_vars, run_vars, rng, index_vars, percentage, symbols_to_rename, rename_map,
                   rename_result, drift_vars, errors>>

\* lines 322-327
RenameReturn ==
    /\ pc = "rename_symbol"
    /\ at.sym > Len(symbols_to_rename)
    /\ rename_result' = [success |-> errors = <<>>, files_changed |-> files_changed,
                         errors |-> errors, metadata |-> rename_map]
    /\ pc' = "renamed"
    /\ UNCHANGED <<input_vars, run_vars, write_log, disk, rng, index_vars, percentage, symbols_to_rename,
                   rename_map, pending, drift_vars, at, files_changed, errors>>

(***************************************************************************)
(* APIDriftSimulator.apply_api_drift                                       *)
(***************************************************************************)
\* the orders in which list(a_set) may yield the set
Orders(S) == {f \in [1..Cardinality(S) -> S] : \A x \in S : \E n \in DOMAIN f : f[n] = x}

\* lines 444-453: the sample
DriftStart(n) ==
    /\ pc \in {"indexed", "renamed"}
    /\ LET all_symbols == SelectSeq(symbol_keys, DriftCandidate)
           s == Sample(rng, all_symbols, Min(n, Len(all_symbols)))
       IN  /\ selected_symbols' = s.val
           /\ rng' = s.rng
    /\ functions_per_repo' = n
    /\ api_migrations' = <<>>
    /\ files_changed' = 0
    /\ errors' = <<>>
    /\ at' = [sym |-> 1, file |-> 0]
    /\ symbol_files' = <<>>
    /\ files_to_migrate' = <<>>
    /\ before_drift' = disk
    /\ write_log' = <<>>
    /\ pc' = "drift_symbol"
    /\ UNCHANGED <<input_vars, run_vars, disk, index_vars, rename_vars, drift_result>>

\* lines 456-474 and _create_v2_definition: the definition file is the first
\* of the set's list; it is rewritten (with the copy, or as it was when no
\* span is found) and counted; then the usage files are sampled
DriftDefinition ==
    /\ pc = "drift_symbol"
    /\ at.sym <= Len(selected_symbols)
    /\ LET symbol == selected_symbols[at.sym]
           v2_symbol == V2Name(symbol)
       IN  \E order \in Orders(symbols_to_files[symbol]) :
            LET definition_file == order[1]
                written == definition_file \notin readonly
                content == V2Content(disk[definition_file], files[definition_file].language,
                                     symbol, v2_symbol)
                usage_files == SubSeq(order, 2, Len(order))
                migrated_count == (Len(usage_files) * 6) \div 10
                s == Sample(rng, usage_files, Min(migrated_count, Len(usage_files)))
            IN  /\ symbol_files' = order
                /\ disk' = IF written THEN [disk EXCEPT ![definition_file] = content] ELSE disk
                /\ files_changed' = IF written THEN files_changed + 1 ELSE files_changed
                /\ write_log' = IF written THEN Append(write_log, symbol) ELSE write_log
                /\ files_to_migrate' = s.val
                /\ rng' = s.rng
    /\ at' = [at EXCEPT !.file = 1]
    /\ pc' = "drift_migrate"
    /\ UNCHANGED <<input_vars, run_vars, index_vars, rename_vars, functions_per_repo, selected_symbols,
                   api_migrations, drift_result, before_drift, errors>>

\* a migration that rewrites for the first sampled symbol, whichever symbol
\* the loop is at
DriftMigrateOfFirstSymbol ==
    /\ pc = "drift_migrate"
    /\ at.file <= Len(files_to_migrate)
    /\ LET symbol == selected_symbols[1]
           file_path == files_to_migrate[at.file]
           content == disk[file_path]
           new_content == SubWord(content, symbol, V2Name(symbol))
           written == new_content # content /\ file_path \notin readonly
       IN  /\ disk' = IF written THEN [disk EXCEPT ![file_path] = new_content] ELSE disk
           /\ files_changed' = IF written THEN files_changed + 1 ELSE files_changed
           /\ write_log' = IF written THEN Append(write_log, symbol) ELSE write_log
    /\ at' = [at EXCEPT !.file = @ + 1]
    /\ UNCHANGED <<input_vars, run_vars, rng, pc, index_vars, rename_vars, drift_vars, errors>>

\* lines 476-478 and _migrate_callsite: the file is written only when the
\* substitution changed it
DriftMigrate ==
    /\ pc = "drift_migrate"
    /\ at.file <= Len(files_to_migrate)
    /\ LET symbol == selected_symbols[at.sym]
           file_path == files_to_migrate[at.file]
           content == disk[file_path]
           new_content == SubWord(content, symbol, V2Name(symbol))
           written == new_content # content /\ file_path \notin readonly
       IN  /\ disk' = IF written THEN [disk EXCEPT ![file_path] = new_content] ELSE disk
           /\ files_changed' = IF written THEN files_changed + 1 ELSE files_changed
           /\ write_log' = IF written THEN Append(write_log, symbol) ELSE write_log
    /\ at' = [at EXCEPT !.file = @ + 1]
    /\ UNCHANGED <<input_vars, run_vars, rng, pc, index_vars, rename_vars, drift_vars, errors>>

\* a ledger entry that lists the first usage files instead of the sampled ones
MigrationOfFirstFiles(symbol, files_of_symbol, migrated) ==
    LET usage_files == SubSeq(files_of_symbol, 2, Len(files_of_symbol))
    IN  [v2_symbol |-> V2Name(symbol),
         definition_file |-> files_of_symbol[1],
         total_callsites |-> Len(usage_files),
         migrated_callsites |-> Len(migrated),
         migrated_files |-> SubSeq(usage_files, 1, Len(migrated))]

\* lines 481-487: the ledger entry of a symbol
Migration(symbol, files_of_symbol, migrated) ==
    LET usage_files == SubSeq(files_of_symbol, 2, Len(files_of_symbol))
    IN  [v2_symbol |-> V2Name(symbol),
         definition_file |-> files_of_symbol[1],
         total_callsites |-> Len(usage_files),
         migrated_callsites |-> Len(migrated),
         migrated_files |-> migrated]

\* lines 480-487: the ledger entry is recorded
DriftRecord ==
    /\ pc = "drift_migrate"
    /\ at.file > Len(files_to_migrate)
    /\ LET symbol == selected_symbols[at.sym]
       IN  api_migrations' = Put(api_migrations, symbol,
                                 Migration(symbol, symbol_files, files_to_migrate))
    /\ at' = [sym |-> at.sym + 1, file |-> 0]
    /\ pc' = "drift_symbol"
    /\ UNCHANGED <<input_vars, run_vars, write_log, disk, rng, index_vars, rename_vars, functions_per_repo,
                   selected_symbols, symbol_files, files_to_migrate, drift_result,
                   before_drift, files_changed, errors>>

\* lines 492-497
DriftReturn ==
    /\ pc = "drift_symbol"
    /\ at.sym > Len(selected_symbols)
    /\ drift_result' = [success |-> errors = <<>>, files_changed |-> files_changed,
                        errors |-> errors, metadata |-> api_migrations]
    /\ pc' = "drifted"
    /\ UNCHANGED <<input_vars, run_vars, write_log, disk, rng, index_vars, rename_vars, functions_per_repo,
                   selected_symbols, symbol_files, files_to_migrate, api_migrations,
                   before_drift, at, files_changed, errors>>

Next ==
    \/ BuildIndex
    \/ \E pct \in Fractions : RenameStart(pct)
    \/ RenameSymbol
    \/ RenameFile
    \/ RenameReturn
    \/ \E n \in 1..MaxCount : DriftStart(n)
    \/ DriftDefinition
    \/ DriftMigrate
    \/ DriftRecord
    \/ DriftReturn

Spec == Init /\ [][Next]_vars

(***************************************************************************)
(* main: LegacyTransformer(seed).apply_all_transforms(), and main started  *)
(* once more on a copy of the same corpus with the same seed and the same  *)
(* repos.yaml                                                              *)
(***************************************************************************)
\* the corpora main is run on; _build_file_index takes the directories of
\* src as the roots, so roots never overlap
MainCorpora ==
    {c \in DOMAIN Corpora :
        Corpora[c] \in {CorpusA, CorpusB, CorpusC, CorpusD, CorpusE, CorpusF, CorpusG, CorpusK}}

\* before LegacyTransformer.__init__ has loaded the configuration
InitMain ==
    /\ corpus \in MainCorpora
    /\ seed \in 0..MaxSeed
    /\ readonly \in {{}} \cup {{p} : p \in Paths(corpus)}
    /\ unreadable = {}
    /\ repos_yaml \in YamlFiles
    /\ pc = "new"
    /\ Constructed
    /\ NoValidator
    /\ NoScorer

\* LegacyTransformer._load_config, called by __init__: only FileNotFoundError
\* is caught; what yaml.safe_load raises leaves the constructor
_load_config ==
    /\ pc = "new"
    /\ IF ~repos_yaml.exists THEN config' = DefaultConfig /\ pc' = "start"
       ELSE IF ~repos_yaml.parses THEN pc' = "raised" /\ UNCHANGED config
       ELSE config' = repos_yaml.document /\ pc' = "start"
    /\ UNCHANGED <<input_vars, run, first, skipped, validator_vars, scorer_vars, disk, rng, index_vars, rename_vars, drift_vars,
                   at, files_changed, errors, write_log>>

\* self.config['transforms'][key] finds the key
Configured(key) ==
    /\ "transforms" \in DOMAIN config
    /\ key \in DOMAIN config.transforms

\* an exception leaves the operation and, nothing catching it, the process
Raise ==
    /\ pc' = "raised"
    /\ UNCHANGED <<input_vars, run_vars, disk, rng, index_vars, rename_vars, drift_vars,
                   at, files_changed, errors, write_log>>

\* LegacyTransformer._build_file_index: the directories of src are the
\* roots; without one, file_index stays None
_build_file_index ==
    IF Corpora[corpus].roots = <<>>
    THEN /\ pc = "start"
         /\ pc' = "no_index"
         /\ UNCHANGED <<input_vars, run_vars, disk, rng, index_vars, rename_vars, drift_vars,
                        at, files_changed, errors, write_log>>
    ELSE BuildIndex

\* "if not self.file_index: return", the first statement of an operation
ReturnWithoutIndex(operation) ==
    /\ pc = "no_index"
    /\ \A n \in 1..Len(skipped) : skipped[n] # operation
    /\ skipped' = Append(skipped, operation)
    /\ UNCHANGED <<input_vars, run, first, config, validator_vars, scorer_vars, disk, rng, pc, index_vars, rename_vars,
                   drift_vars, at, files_changed, errors, write_log>>

\* an operation that goes on without an index: SymbolRenamer(None, rng)
\* fails at its first read of the index
RaiseWithoutIndex(operation) ==
    /\ pc = "no_index"
    /\ Raise

\* LegacyTransformer.apply_renames with the test of file_index left out
apply_renames_unchecked ==
    \/ RaiseWithoutIndex("apply_renames")
    \/ /\ pc = "indexed"
       /\ IF Configured("symbol_rename_percentage")
          THEN RenameStart(config.transforms.symbol_rename_percentage)
          ELSE Raise

\* LegacyTransformer.apply_renames: rename_symbols with the configured
\* fraction; a key that is not there raises KeyError
apply_renames ==
    \/ ReturnWithoutIndex("apply_renames")
    \/ /\ pc = "indexed"
       /\ IF Configured("symbol_rename_percentage")
          THEN RenameStart(config.transforms.symbol_rename_percentage)
          ELSE Raise

\* LegacyTransformer.apply_api_drift: apply_api_drift with the configured
\* count, after the renames
apply_api_drift ==
    \/ ReturnWithoutIndex("apply_api_drift")
    \/ /\ pc = "renamed"
       /\ IF Configured("api_drift_functions")
          THEN DriftStart(config.transforms.api_drift_functions)
          ELSE Raise

\* LegacyTransformer.apply_wrapper_layers up to its test of file_index; the
\* wrapper files it writes when there is an index are outside this model
apply_wrapper_layers ==
    ReturnWithoutIndex("apply_wrapper_layers")

\* main, a second time: a new LegacyTransformer(seed) starts from the
\* corpus as it was; what the first process ended with is kept to compare
SecondRun ==
    /\ run = 1
    /\ pc = "drifted"
    /\ first' = [symbols_to_rename |-> symbols_to_rename,
                 rename_map |-> rename_map,
                 renamed |-> before_drift,
                 api_migrations |-> api_migrations,
                 disk |-> disk]
    /\ run' = 2
    /\ disk' = Corpora[corpus].content
    /\ rng' = RngSeed(seed)
    /\ config' = <<>>
    /\ skipped' = <<>>
    /\ pc' = "new"
    /\ files' = <<>>
    /\ symbol_keys' = <<>>
    /\ symbols_to_files' = <<>>
    /\ percentage' = Zero
    /\ symbols_to_rename' = <<>>
    /\ rename_map' = <<>>
    /\ pending' = {}
    /\ functions_per_repo' = 0
    /\ selected_symbols' = <<>>
    /\ symbol_files' = <<>>
    /\ files_to_migrate' = <<>>
    /\ api_migrations' = <<>>
    /\ at' = [sym |-> 0, file |-> 0]
    /\ files_changed' = 0
    /\ errors' = <<>>
    /\ write_log' = <<>>
    /\ rename_result' = NoResult
    /\ drift_result' = NoResult
    /\ before_drift' = <<>>
    /\ UNCHANGED <<input_vars, validator_vars, scorer_vars>>

\* apply_all_transforms: the index, then the renames, then the drift
NextTwoRuns ==
    \/ _load_config
    \/ _build_file_index
    \/ apply_renames
    \/ RenameSymbol
    \/ RenameFile
    \/ RenameReturn
    \/ apply_api_drift
    \/ DriftDefinition
    \/ DriftMigrate
    \/ DriftRecord
    \/ DriftReturn
    \/ apply_wrapper_layers
    \/ SecondRun

SpecTwoRuns == InitMain /\ [][NextTwoRuns]_vars

(***************************************************************************)
(* PatchValidator: backup, patch, scoring, restore                         *)
(***************************************************************************)
\* the items create_backup copies, in the order it copies them
Items == <<"src", "transforms", "tasks", "scoring">>

\* the files a directory of the working tree can hold when the call starts
Names == {"a", "b"}

Under(tree, item) == {f \in tree.files : f[1] = item}

\* the working directories validate_and_score can be called in; at most one
\* file cannot be read
InitValidate ==
    /\ corpus = 1
    /\ seed = 0
    /\ readonly = {}
    /\ repos_yaml = NoFile
    /\ pc = "validate"
    /\ Constructed
    /\ \E dirs \in SUBSET {Items[n] : n \in 1..Len(Items)} :
       \E names \in [dirs -> SUBSET Names] :
           work = [dirs |-> dirs,
                   files |-> {<<d, n, "old">> : d \in dirs, n \in Names} \cap
                             {f \in dirs \X Names \X {"old"} : f[2] \in names[f[1]]}]
    /\ as_found = work
    /\ unreadable \in {{}} \cup {{<<f[1], f[2]>>} : f \in work.files}
    /\ backup_dir = NoBackup
    /\ patch_applied = FALSE
    /\ NoScorer

validate_frame ==
    UNCHANGED <<input_vars, run, first, config, skipped, as_found, scorer_vars, disk, rng, index_vars,
                rename_vars, drift_vars, at, files_changed, errors, write_log>>

\* shutil.copytree(item, backup/item): the directory is made, every file
\* that can be read is copied, and Error is raised at the end for the rest
CopyTree(tree, item, into) ==
    [tree |-> [dirs |-> into.dirs \cup {item},
               files |-> into.files \cup
                         {f \in Under(tree, item) : <<f[1], f[2]>> \notin unreadable}],
     raised |-> \E f \in Under(tree, item) : <<f[1], f[2]>> \in unreadable]

\* create_backup from item n on: an item that is not there is passed over,
\* the first copy that raises ends the function
RECURSIVE BackupFrom(_, _, _)
BackupFrom(n, tree, into) ==
    IF n > Len(Items) THEN [tree |-> into, raised |-> FALSE]
    ELSE IF Items[n] \notin tree.dirs THEN BackupFrom(n + 1, tree, into)
    ELSE LET copy == CopyTree(tree, Items[n], into)
         IN  IF copy.raised THEN copy ELSE BackupFrom(n + 1, tree, copy.tree)

\* PatchValidator.create_backup, the first statement of the try block of
\* validate_and_score; tempfile.mkdtemp itself may fail
create_backup ==
    /\ pc = "validate"
    /\ \/ /\ backup_dir' = NoBackup
          /\ pc' = "failed"
       \/ LET copy == BackupFrom(1, work, NoTree)
          IN  /\ backup_dir' = [made |-> TRUE, tree |-> copy.tree]
              /\ pc' = IF copy.raised THEN "failed" ELSE "backed_up"
    /\ UNCHANGED <<work, patch_applied>>
    /\ validate_frame

\* what a patch can do to the working tree: rewrite a file, delete one, add
\* one to a directory, make a directory with a file in it
Patched(tree) ==
    {[tree EXCEPT !.files = (@ \ {f}) \cup {<<f[1], f[2], "new">>}] : f \in tree.files}
    \cup {[tree EXCEPT !.files = @ \ {f}] : f \in tree.files}
    \cup {[tree EXCEPT !.files = @ \cup {<<d, "c", "new">>}] : d \in tree.dirs}
    \cup {[dirs |-> tree.dirs \cup {Items[n]},
            files |-> tree.files \cup {<<Items[n], "c", "new">>}] :
                n \in {m \in 1..Len(Items) : Items[m] \notin tree.dirs}}

\* PatchValidator.apply_patch_with_timeout: git apply, then patch; True when
\* one of them applied the patch, False when both failed or timed out
apply_patch_with_timeout ==
    /\ pc = "backed_up"
    /\ \/ /\ work' \in Patched(work)
          /\ patch_applied' = TRUE
       \/ /\ patch_applied' = FALSE
          /\ UNCHANGED work
    /\ pc' = "patched"
    /\ UNCHANGED backup_dir
    /\ validate_frame

\* PatchValidator.load_tasks and the test of its result: without a task
\* file validate_and_score returns an error
load_tasks ==
    /\ pc = "patched"
    /\ pc' = IF Under(work, "tasks") = {} THEN "no_tasks" ELSE "loaded"
    /\ UNCHANGED <<work, backup_dir, patch_applied>>
    /\ validate_frame

\* ScoringEngine.score_all_tasks and calculate_weighted_score: a result, or
\* an exception that the except clause turns into an error
score_all_tasks ==
    /\ pc = "loaded"
    /\ pc' \in {"scored", "failed"}
    /\ UNCHANGED <<work, backup_dir, patch_applied>>
    /\ validate_frame

\* the part of restore_backup for one item: what is there is removed and
\* the copy is copied back, when the backup has the item
RECURSIVE RestoreFrom(_, _, _)
RestoreFrom(n, tree, from) ==
    IF n > Len(Items) THEN tree
    ELSE IF Items[n] \notin from.dirs THEN RestoreFrom(n + 1, tree, from)
    ELSE RestoreFrom(n + 1,
                     [dirs |-> tree.dirs \cup {Items[n]},
                      files |-> (tree.files \ Under(tree, Items[n])) \cup Under(from, Items[n])],
                     from)

\* PatchValidator.restore_backup, the finally clause of validate_and_score:
\* nothing without a backup directory; the directory is removed at the end
restore_backup ==
    /\ pc \in {"failed", "no_tasks", "scored"}
    /\ work' = IF backup_dir.made
               THEN RestoreFrom(1, work, backup_dir.tree)
               ELSE work
    /\ backup_dir' = NoBackup
    /\ pc' = "returned"
    /\ UNCHANGED patch_applied
    /\ validate_frame

NextValidate ==
    \/ create_backup
    \/ apply_patch_with_timeout
    \/ load_tasks
    \/ score_all_tasks
    \/ restore_backup

SpecValidate == InitValidate /\ [][NextValidate]_vars

(***************************************************************************)
(* APIUpgradeScorer.score                                                  *)
(***************************************************************************)
MaxCallsites == 2

\* a callsite of the ground truth and the file it names: whether the file
\* is there, and how many calls of the old and of the new function the two
\* patterns of _check_callsite_upgrade find in it
Callsites ==
    [needs_upgrade : BOOLEAN, exists : {TRUE}, old_count : 0..1, new_count : 0..1]
    \cup [needs_upgrade : BOOLEAN, exists : {FALSE}, old_count : {0}, new_count : {0}]

\* a task with old_api and new_api, its ground truth file there or not, and
\* the flag patch_applied that score is called with
InitScore ==
    /\ corpus = 1
    /\ seed = 0
    /\ readonly = {}
    /\ unreadable = {}
    /\ repos_yaml = NoFile
    /\ pc = "score"
    /\ Constructed
    /\ work = NoTree
    /\ as_found = NoTree
    /\ backup_dir = NoBackup
    /\ patch_applied \in BOOLEAN
    /\ ground_truth \in {NoFile} \cup
            {[exists |-> TRUE, callsites |-> q] :
                q \in UNION {[1..n -> Callsites] : n \in 0..MaxCallsites}}
    /\ at_callsite = 0
    /\ actual_upgrades = 0
    /\ preserved_legacy = 0
    /\ score_result = NoResult

score_frame ==
    UNCHANGED <<input_vars, run, first, config, skipped, validator_vars, ground_truth, disk, rng,
                index_vars, rename_vars, drift_vars, at, files_changed, errors, write_log>>

\* _error_result: score 0.0 of 1.0 and the errors
_error_result(messages) ==
    [score |-> Zero, max_score |-> One, errors |-> messages]

\* lines 365-372: without a patch, or without the ground truth file, the
\* result is an error result; otherwise the loop starts
ScoreStart ==
    /\ pc = "score"
    /\ IF ~patch_applied
       THEN /\ score_result' = _error_result(<<"No patch was applied">>)
            /\ pc' = "task_scored"
            /\ UNCHANGED at_callsite
       ELSE IF ~ground_truth.exists
       THEN /\ score_result' = _error_result(<<"Ground truth file not found">>)
            /\ pc' = "task_scored"
            /\ UNCHANGED at_callsite
       ELSE /\ at_callsite' = 1
            /\ pc' = "callsites"
            /\ UNCHANGED score_result
    /\ UNCHANGED <<actual_upgrades, preserved_legacy>>
    /\ score_frame

\* _check_callsite_upgrade: no call of the old function, some of the new
_check_callsite_upgrade(callsite) ==
    callsite.old_count = 0 /\ callsite.new_count > 0

\* lines 402-414: one callsite of the loop
CheckCallsite ==
    /\ pc = "callsites"
    /\ at_callsite <= Len(ground_truth.callsites)
    /\ LET callsite == ground_truth.callsites[at_callsite]
           upgrade_found == _check_callsite_upgrade(callsite)
       IN  IF ~callsite.exists
           THEN UNCHANGED <<actual_upgrades, preserved_legacy>>
           ELSE IF callsite.needs_upgrade /\ upgrade_found
           THEN actual_upgrades' = actual_upgrades + 1 /\ UNCHANGED preserved_legacy
           ELSE IF ~callsite.needs_upgrade /\ ~upgrade_found
           THEN preserved_legacy' = preserved_legacy + 1 /\ UNCHANGED actual_upgrades
           ELSE UNCHANGED <<actual_upgrades, preserved_legacy>>
    /\ at_callsite' = at_callsite + 1
    /\ UNCHANGED <<pc, score_result>>
    /\ score_frame

\* line 396: the callsites marked needs_upgrade
expected_upgrades ==
    Cardinality({n \in 1..Len(ground_truth.callsites) : ground_truth.callsites[n].needs_upgrade})

\* lines 420-437: the two accuracies, the weighted sum, the result
ScoreReturn ==
    /\ pc = "callsites"
    /\ at_callsite > Len(ground_truth.callsites)
    /\ LET upgrade_accuracy == Quotient(actual_upgrades, Max(expected_upgrades, 1))
           legacy_accuracy == Quotient(preserved_legacy,
                                       Max(Len(ground_truth.callsites) - expected_upgrades, 1))
           score == Sum(Product(upgrade_accuracy, Point7), Product(legacy_accuracy, Point3))
       IN  score_result' = [score |-> MinFloat(score, One), max_score |-> One, errors |-> <<>>]
    /\ pc' = "task_scored"
    /\ UNCHANGED <<at_callsite, actual_upgrades, preserved_legacy>>
    /\ score_frame

NextScore ==
    \/ ScoreStart
    \/ CheckCallsite
    \/ ScoreReturn

SpecScore == InitScore /\ [][NextScore]_vars

(***************************************************************************)
(* Properties                                                              *)
(***************************************************************************)
\* the corpus as it was before any operation
Original(F) == Corpora[corpus].content[F]

\* apply_api_drift was called on the corpus as build_index read it
FreshDrift == before_drift = Corpora[corpus].content

\* C1: two runs of build_index, rename_symbols and apply_api_drift from the
\* same corpus, with the same seed and arguments, end with equal rename
\* maps, equal ledgers and equal files, whatever order each run iterates a
\* symbol's file set in (stated for runs in which every file is writable)
C1_TwoRunsAgree ==
    (run = 2 /\ pc = "drifted" /\ readonly = {}) =>
        /\ rename_map = first.rename_map
        /\ api_migrations = first.api_migrations
        /\ disk = first.disk

\* X is declared in D and only referenced in F, an indexed file of D's language
ScenarioA(X, D, F) ==
    /\ D \in symbols_to_files[X]
    /\ F \in DOMAIN files
    /\ F \notin symbols_to_files[X]
    /\ files[F].language = files[D].language
    /\ HasWord(Original(F), X)

\* C2 (Scenario A): when one indexed file declares a symbol and a second
\* indexed file of the same language only references it, rename_symbols
\* with fraction 1.0 leaves both files with the generated name and neither
\* with a whole-word occurrence of the old name (every file being writable)
C2_ScenarioA ==
    (pc = "renamed" /\ percentage = One /\ readonly = {}) =>
        \A X \in DOMAIN rename_map :
            \A D \in DOMAIN files, F \in DOMAIN files :
                ScenarioA(X, D, F) =>
                    /\ Contains(disk[D], rename_map[X]) /\ ~HasWord(disk[D], X)
                    /\ Contains(disk[F], rename_map[X]) /\ ~HasWord(disk[F], X)

\* the files of the corpus that use X as a whole word without declaring it
Users(X) == {F \in Paths(corpus) : HasWord(Original(F), X)} \ symbols_to_files[X]

\* X is the only symbol of the index, a drift candidate, defined in one
\* file and used in three others
ScenarioB(X) ==
    /\ symbol_keys = <<X>>
    /\ DriftCandidate(X)
    /\ Cardinality(symbols_to_files[X]) = 1
    /\ Cardinality(Users(X)) = 3

\* C3 (Scenario B): when a function is defined in one file and used in
\* three others and is the only drift candidate, apply_api_drift with
\* count 1 leaves the defining file with both the function and its V2 copy,
\* rewrites exactly one of the three using files to the V2 name and leaves
\* the other two as they were (on a fresh index, every file being writable)
C3_ScenarioB ==
    (pc = "drifted" /\ functions_per_repo = 1 /\ FreshDrift /\ readonly = {}) =>
        \A X \in DOMAIN symbols_to_files :
            ScenarioB(X) =>
                /\ \A D \in symbols_to_files[X] :
                    LET defined == _extract_symbols(disk[D], files[D].language)
                    IN  /\ \E n \in 1..Len(defined) : defined[n] = X
                        /\ \E n \in 1..Len(defined) : defined[n] = V2Name(X)
                /\ Cardinality({F \in Users(X) : disk[F] # Original(F)}) = 1
                /\ \A F \in Users(X) :
                    disk[F] # Original(F) =>
                        HasWord(disk[F], V2Name(X)) /\ ~HasWord(disk[F], X)

\* the directory entries of exclude_patterns (the others are file-name fragments)
ExcludedDirs == {d \in exclude_patterns : d[Len(d)] = "/"}

\* no excluded directory substring occurs in path p
NotExcluded(p) == \A d \in ExcludedDirs : ~Contains(p, d)

\* C4 (exclusion law): after build_index no path of the file table or of a
\* symbol's file set contains an excluded directory substring, at any
\* depth below the excluded directory, a direct child included
C4_ExclusionLaw ==
    /\ \A p \in DOMAIN files : NotExcluded(p)
    /\ \A X \in DOMAIN symbols_to_files : \A p \in symbols_to_files[X] : NotExcluded(p)

\* C5 (rename completeness): after rename_symbols, for every selected symbol
\* X that is not a substring of another selected symbol, every file of X's
\* file set has no whole-word X left and holds the name generated for X,
\* whatever symbols were sampled and in whatever order (every file being
\* writable)
C5_RenameComplete ==
    (pc = "renamed" /\ readonly = {}) =>
        \A X \in DOMAIN rename_map :
            (~\E Z \in DOMAIN rename_map \ {X} : Contains(Z, X)) =>
                \A F \in symbols_to_files[X] :
                    ~HasWord(disk[F], X) /\ Contains(disk[F], rename_map[X])

\* the files a ledger entry lists as migrated
MigratedFiles(X) ==
    {api_migrations[X].migrated_files[n] : n \in 1..Len(api_migrations[X].migrated_files)}

\* C6: after apply_api_drift every file a ledger entry lists in
\* migrated_files has no whole-word occurrence of the entry's old name and
\* holds its V2 name (stated for a drift run on a fresh index)
C6_MigratedFilesRewritten ==
    (pc = "drifted" /\ FreshDrift) =>
        \A X \in DOMAIN api_migrations :
            \A F \in MigratedFiles(X) :
                ~HasWord(disk[F], X) /\ Contains(disk[F], api_migrations[X].v2_symbol)

\* the usage files of a drifted symbol outside its migrated subset
NonMigrated(X) ==
    symbols_to_files[X] \ ({api_migrations[X].definition_file} \cup MigratedFiles(X))

\* the files the ledger says were written for symbol Z
TouchedFor(Z) == {api_migrations[Z].definition_file} \cup MigratedFiles(Z)

\* C7, as stated: every usage file of a drifted symbol outside its migrated
\* subset is the same after the run as before it, for any number of
\* symbols drifted in the run
C7_NonMigratedUntouched ==
    pc = "drifted" =>
        \A X \in DOMAIN api_migrations :
            \A F \in NonMigrated(X) : disk[F] = before_drift[F]

\* C7, amended: every usage file of a drifted symbol outside its migrated
\* subset is the same after the run as before it, unless it is the
\* definition file or a migrated file of another symbol drifted in the run
C7_NonMigratedUntouchedByOwnSymbol ==
    pc = "drifted" =>
        \A X \in DOMAIN api_migrations :
            \A F \in NonMigrated(X) :
                (\A Z \in DOMAIN api_migrations \ {X} : F \notin TouchedFor(Z)) =>
                    disk[F] = before_drift[F]

\* a run that drifted two symbols, migrated a file, and left a usage file
\* of one of them out of everything written
C7_Witness ==
    /\ pc = "drifted"
    /\ Cardinality(DOMAIN api_migrations) = 2
    /\ \E X \in DOMAIN api_migrations :
        /\ \E M \in MigratedFiles(X) : disk[M] # before_drift[M]
        /\ \E F \in NonMigrated(X) :
            \A Z \in DOMAIN api_migrations \ {X} : F \notin TouchedFor(Z)

\* the definition pattern of the file's language finds a definition of symbol
Located(content, language, symbol) ==
    \/ /\ language = "go"
       /\ \E i \in 1..Len(content) : GoDefSpan(content, i, symbol) > 0
    \/ /\ language = "python"
       /\ \E i \in 1..Len(content) : PyDefSpan(content, i, symbol) > 0

\* C8: a selected symbol whose definition span is not located in its
\* definition file is skipped: the step that handles the definition file
\* changes no file and does not increase files_changed, and no ledger entry
\* is recorded for the symbol
C8_UnlocatedSkipped ==
    [][/\ (/\ pc = "drift_symbol"
           /\ pc' = "drift_migrate"
           /\ ~Located(disk[symbol_files'[1]], files[symbol_files'[1]].language,
                       selected_symbols[at.sym]))
          => (disk' = disk /\ files_changed' = files_changed)
       /\ (/\ pc = "drift_migrate"
           /\ pc' = "drift_symbol"
           /\ ~Located(disk[symbol_files[1]], files[symbol_files[1]].language,
                       selected_symbols[at.sym]))
          => api_migrations' = api_migrations]_vars

\* C9: when a write of rename_symbols failed, the result says so: errors is
\* not empty and success is false
C9_WriteFailureReported ==
    (pc = "renamed" /\ \E X \in DOMAIN rename_map : symbols_to_files[X] \cap readonly # {}) =>
        rename_result.errors # <<>> /\ ~rename_result.success

\* the index of the brace that closes the block opened at or after i
RECURSIVE ClosingBrace(_, _, _)
ClosingBrace(s, i, depth) ==
    IF i > Len(s) THEN 0
    ELSE IF s[i] = "{" THEN ClosingBrace(s, i + 1, depth + 1)
    ELSE IF s[i] = "}" THEN (IF depth = 1 THEN i ELSE ClosingBrace(s, i + 1, depth - 1))
    ELSE ClosingBrace(s, i + 1, depth)

\* Go content with the first definition of X, through the brace closing its
\* body, followed by a blank line and one copy of it declared as XV2
WithV2Copy(content, X) ==
    LET start == SearchFrom(content, [i \in 1..Len(content) |-> GoDefSpan(content, i, X)], 1).start
        name == SkipSpaces(content, start + 1)
        close == ClosingBrace(content, start, 0)
        v2 == Slice(content, start, name) \o V2Name(X) \o Slice(content, name + Len(X), close + 1)
    IN  SubSeq(content, 1, close) \o <<"\n", "\n">> \o v2
            \o SubSeq(content, close + 1, Len(content))

\* C10, for a Go definition file: when the definition of X is located, the
\* step leaves the file with the original definition, whole up to the brace
\* closing its body, followed by exactly one copy declared XV2, and nothing
\* else changed (every file being writable)
C10_V2CopyAfterDefinition ==
    [][(/\ pc = "drift_symbol"
        /\ pc' = "drift_migrate"
        /\ readonly = {}
        /\ files[symbol_files'[1]].language = "go"
        /\ Located(disk[symbol_files'[1]], "go", selected_symbols[at.sym]))
       => disk' = [disk EXCEPT ![symbol_files'[1]] =
                        WithV2Copy(disk[symbol_files'[1]], selected_symbols[at.sym])]]_vars

\* the elements of a sequence are pairwise distinct
Distinct(q) == \A m, n \in 1..Len(q) : q[m] = q[n] => m = n

Range(q) == {q[n] : n \in 1..Len(q)}

\* C11: every entry of the migration ledger has migrated_callsites equal to
\* the length of migrated_files and to floor(0.6 x total_callsites), has
\* total_callsites equal to the size of the symbol's file set minus one, and
\* lists pairwise distinct files of the symbol's file set, none of them the
\* entry's definition_file
C11_LedgerEntryLaw ==
    \A X \in DOMAIN api_migrations :
        LET e == api_migrations[X]
        IN  /\ e.migrated_callsites = Len(e.migrated_files)
            /\ e.migrated_callsites = (6 * e.total_callsites) \div 10
            /\ e.total_callsites = Cardinality(symbols_to_files[X]) - 1
            /\ Distinct(e.migrated_files)
            /\ Range(e.migrated_files) \subseteq symbols_to_files[X]
            /\ e.definition_file \notin Range(e.migrated_files)

\* a ledger entry that lists two migrated files
C11_Witness ==
    \E X \in DOMAIN api_migrations :
        /\ api_migrations[X].migrated_callsites = 2
        /\ api_migrations[X].total_callsites = 4

\* floor(n * x) of the exact product of an integer and a fraction
Floor(n, x) ==
    LET product == Times(x.mant, n)
    IN  ToNat(SubSeq(product, x.exp + 1, Len(product)))

\* rename_symbols has drawn its sample
Sampled == pc \in {"rename_symbol", "rename_files", "renamed"}

\* C12: for an index with n symbols and a fraction in [0,1], rename_symbols
\* selects exactly min(n, max(1, floor(n x fraction))) distinct symbols: none
\* when n = 0, at least one when n >= 1 even if the fraction is 0
C12_SampleSizeLaw ==
    Sampled =>
        LET n == Len(symbol_keys)
        IN  /\ Len(symbols_to_rename) = Min(n, Max(1, Floor(n, percentage)))
            /\ Distinct(symbols_to_rename)

\* C13: with the same seed and the same index, two runs of rename_symbols
\* select the same symbols in the same order, give each the same new name and
\* leave every file with the same content, whatever the order in which each
\* symbol's file set is iterated
C13_RenameDeterministic ==
    (run = 2 /\ pc = "renamed") =>
        /\ symbols_to_rename = first.symbols_to_rename
        /\ rename_map = first.rename_map
        /\ disk = first.renamed

\* a second run has renamed a symbol of several files, one of them not writable
C13_Witness ==
    /\ run = 2
    /\ pc = "renamed"
    /\ \E n \in 1..Len(symbols_to_rename) :
        /\ Cardinality(symbols_to_files[symbols_to_rename[n]]) >= 2
        /\ symbols_to_files[symbols_to_rename[n]] \cap readonly # {}
    /\ disk # Corpora[corpus].content

\* the directory tree without the file p
TreeWithout(tree, p) ==
    [n \in 1..Len(tree) |->
        [tree[n] EXCEPT !.filenames = SelectSeq(@, LAMBDA f : PathJoin(tree[n].root, f) # p)]]

\* the index build_index gives for the corpus when every file can be read
IndexOf(tree) == build_index(Corpora[corpus].roots, tree, Corpora[corpus].content, {})

\* C14: when the analysis of one file raises, indexing completes; the file is
\* in no record of the file table and in no symbol's file set, and the other
\* files are indexed exactly as they are when the failed file does not exist
C14_FailedFileLeftOut ==
    pc = "indexed" =>
        \A p \in unreadable :
            LET without == IndexOf(TreeWithout(Corpora[corpus].tree, p))
            IN  /\ p \notin DOMAIN files
                /\ \A s \in DOMAIN symbols_to_files : p \notin symbols_to_files[s]
                /\ files = without.files
                /\ symbol_keys = without.keys
                /\ symbols_to_files = without.sets

\* a file the walk finds could not be read, and other files are indexed
C14_Witness ==
    /\ pc = "indexed"
    /\ \E p \in unreadable : p \in DOMAIN IndexOf(Corpora[corpus].tree).files
    /\ DOMAIN files # {}
    /\ files # IndexOf(Corpora[corpus].tree).files

\* the index has been built
Indexed == pc \notin {"new", "start", "raised"}

\* C15: after build_index, for any roots, every path in a symbol's file set
\* has a record in the file table that lists the symbol, and every symbol a
\* file record lists has the file's path in its set
C15_IndexConsistent ==
    Indexed =>
        /\ \A s \in DOMAIN symbols_to_files : \A p \in symbols_to_files[s] :
            /\ p \in DOMAIN files
            /\ s \in Range(files[p].symbols)
        /\ \A p \in DOMAIN files : \A s \in Range(files[p].symbols) :
            /\ s \in DOMAIN symbols_to_files
            /\ p \in symbols_to_files[s]

\* overlapping roots: a file that two walks reach is indexed, and a symbol
\* has several files
C15_Witness ==
    /\ pc = "indexed"
    /\ \E p \in DOMAIN files :
        Cardinality({n \in 1..Len(Corpora[corpus].roots) :
            p \in Range(_find_source_files(Corpora[corpus].tree, Corpora[corpus].roots[n]))}) >= 2
    /\ \E s \in DOMAIN symbols_to_files : Cardinality(symbols_to_files[s]) >= 2

\* repos.yaml is missing, is not parseable, or lacks the transforms section
\* or one of its keys
ConfigProblem ==
    \/ ~repos_yaml.exists
    \/ ~repos_yaml.parses
    \/ "transforms" \notin DOMAIN repos_yaml.document
    \/ \E key \in {"symbol_rename_percentage", "api_drift_functions"} :
        key \notin DOMAIN repos_yaml.document.transforms

\* C16: configuration problems are never fatal: with repos.yaml missing, not
\* parseable, or lacking the transforms section or one of its keys, the
\* constructor and the operations raise nothing and run with the hardcoded
\* default values
C16_ConfigNeverFatal ==
    ConfigProblem =>
        /\ pc # "raised"
        /\ Sampled => percentage = DefaultFraction
        /\ pc \in {"drift_symbol", "drift_migrate", "drifted"} => functions_per_repo = DefaultCount

\* the sample of the operation that is running or has just returned
CurrentSample ==
    IF Sampled THEN symbols_to_rename
    ELSE IF pc \in {"drift_symbol", "drift_migrate", "drifted"} THEN selected_symbols
    ELSE <<>>

\* the position of x in a sequence of distinct elements
IndexIn(q, x) == CHOOSE n \in 1..Len(q) : q[n] = x

\* the writes made so far are in the order of the sample
WritesInSampleOrder ==
    \A i, j \in 1..Len(write_log) :
        i < j => IndexIn(CurrentSample, write_log[i]) <= IndexIn(CurrentSample, write_log[j])

\* a step writes at most one file, and enters it in the log
OneWrite ==
    /\ Cardinality({p \in DOMAIN disk : disk'[p] # disk[p]}) <= 1
    /\ disk' # disk => write_log' = Append(write_log, write_log'[Len(write_log')])

\* C17: in rename_symbols and in apply_api_drift every write made for the
\* i-th sampled symbol happens before any write made for the (i+1)-th, and
\* no two writes are in progress at once
C17_WritesInSymbolOrder == [](WritesInSampleOrder) /\ [][OneWrite]_vars

\* an operation has written for two sampled symbols
C17_Witness ==
    /\ \E i, j \in 1..Len(write_log) : write_log[i] # write_log[j]
    /\ pc \in {"renamed", "drifted"}

\* the calls of rename_symbols when k symbols have their names: the sample,
\* then a flip and a choice for each
RECURSIVE RenameDraws(_)
RenameDraws(k) == IF k = 0 THEN <<"sample">> ELSE RenameDraws(k - 1) \o <<"random", "choice">>

\* the calls of apply_api_drift when m symbols have their usage sample: the
\* sample of the symbols, then one sample for each
DriftDraws(m) == [n \in 1..(m + 1) |-> "sample"]

\* how many sampled symbols have had their draws
Drawn ==
    CASE pc = "rename_symbol" -> at.sym - 1
      [] pc = "rename_files" -> at.sym
      [] pc = "renamed" -> Len(symbols_to_rename)
      [] pc = "drift_symbol" -> at.sym - 1
      [] pc = "drift_migrate" -> at.sym
      [] pc = "drifted" -> Len(selected_symbols)
      [] OTHER -> 0

\* C18: the generator is used in a fixed order: build_index makes no draw;
\* rename_symbols makes one sampling draw and then, for each selected symbol
\* in sample order, one coin flip followed by one vocabulary choice;
\* apply_api_drift makes one sampling draw before any per-symbol migration
\* draw; no per-item draw precedes the sampling draw of its operation
C18_DrawOrder ==
    /\ pc \in {"start", "indexed"} => rng.log = <<>>
    /\ Sampled => rng.log = RenameDraws(Drawn)
    /\ pc \in {"drift_symbol", "drift_migrate", "drifted"} =>
        \/ rng.log = DriftDraws(Drawn)
        \/ rng.log = RenameDraws(Len(symbols_to_rename)) \o DriftDraws(Drawn)

\* both operations have run, each over two symbols
C18_Witness ==
    /\ pc = "drifted"
    /\ Len(symbols_to_rename) >= 2
    /\ Len(selected_symbols) >= 2
    /\ rng.log = RenameDraws(Len(symbols_to_rename)) \o DriftDraws(Len(selected_symbols))

\* C19: rename_symbols and apply_api_drift never add, remove or alter an
\* entry of the file table or of the symbol index: after any sequence of
\* them the index is what build_index produced, though the files have changed
C19_IndexUnchanged == [][pc # "start" => UNCHANGED index_vars]_vars

\* both operations have run on an index, and files that it records have changed
C19_Witness ==
    /\ pc = "drifted"
    /\ DOMAIN rename_map # {}
    /\ DOMAIN api_migrations # {}
    /\ \E p \in DOMAIN files : disk[p] # Corpora[corpus].content[p]
    /\ \E p \in DOMAIN files : files[p].symbols # _analyze_file(p, disk[p]).symbols

\* C20: within one rename_symbols invocation the keys of rename_map are a
\* sample without replacement of the index's symbol names: every key is an
\* index symbol, no symbol is selected twice, and the map has one entry for
\* each selected symbol
C20_RenameMapDomain ==
    Sampled =>
        /\ DOMAIN rename_map \subseteq Range(symbol_keys)
        /\ Distinct(symbols_to_rename)
        /\ DOMAIN rename_map = {symbols_to_rename[n] : n \in 1..Drawn}
        /\ Cardinality(DOMAIN rename_map) = Drawn

\* rename_symbols has returned a map of two symbols
C20_Witness ==
    /\ pc = "renamed"
    /\ Cardinality(DOMAIN rename_map) >= 2
    /\ Len(symbols_to_rename) < Len(symbol_keys)

\* the number of writes the log holds for a symbol
WritesFor(symbol) == Cardinality({n \in 1..Len(write_log) : write_log[n] = symbol})

\* C21: a failure to rewrite one file during rename_symbols does not stop the
\* pass: every other file of the same symbol and every file of each symbol
\* sampled later is rewritten, rename_map has an entry for every sampled
\* symbol, files_changed counts the rewrites that succeeded, and success is
\* true exactly when the list of errors is empty
C21_RenameGoesOn ==
    pc = "renamed" =>
        /\ \A n \in 1..Len(symbols_to_rename) :
            LET symbol == symbols_to_rename[n]
            IN  /\ symbol \in DOMAIN rename_map
                /\ WritesFor(symbol) = Cardinality(symbols_to_files[symbol] \ readonly)
        /\ rename_result.files_changed = Len(write_log)
        /\ rename_result.metadata = rename_map
        /\ rename_result.success = (rename_result.errors = <<>>)

\* a pass in which a write failed for a symbol that has other files and that
\* is not the last of the sample
C21_Witness ==
    /\ pc = "renamed"
    /\ \E n \in 1..(Len(symbols_to_rename) - 1) :
        /\ symbols_to_files[symbols_to_rename[n]] \cap readonly # {}
        /\ symbols_to_files[symbols_to_rename[n]] \ readonly # {}
        /\ symbols_to_files[symbols_to_rename[n + 1]] \ readonly # {}

\* apply_api_drift has drawn its sample
DriftSampled == pc \in {"drift_symbol", "drift_migrate", "drifted"}

\* the index names longer than 3 characters that begin with an uppercase one
Pool == {s \in Range(symbol_keys) : StrLen(s) > 3 /\ UpperInitial(s[1])}

\* C22: apply_api_drift draws its symbols only from the index names of length
\* greater than 3 with an uppercase first character and selects exactly
\* min(symbol_count, pool_size) distinct ones; the ledger has no entry for a
\* name outside the pool and no more entries than that number
C22_DriftPool ==
    DriftSampled =>
        /\ Range(selected_symbols) \subseteq Pool
        /\ Distinct(selected_symbols)
        /\ Len(selected_symbols) = Min(functions_per_repo, Cardinality(Pool))
        /\ DOMAIN api_migrations \subseteq Pool
        /\ Cardinality(DOMAIN api_migrations) <= Min(functions_per_repo, Cardinality(Pool))

\* a drift over an index with a name the pool leaves out, with fewer symbols
\* asked for than the pool holds
C22_Witness ==
    /\ pc = "drifted"
    /\ Pool # Range(symbol_keys)
    /\ DOMAIN api_migrations # {}
    /\ Cardinality(DOMAIN api_migrations) = functions_per_repo
    /\ functions_per_repo < Cardinality(Pool)

\* a drift that asks for more symbols than the pool holds
C22_WitnessSmallPool ==
    /\ pc = "drifted"
    /\ Cardinality(Pool) < functions_per_repo

\* the names a parseable Python text declares with def or class at any
\* depth, and the names it assigns on a line that is not indented
PyDeclared(s) ==
    {PyStatement(s, i).name : i \in {j \in 1..Len(s) :
        /\ PyStatement(s, j).end > 0
        /\ \/ PyDefDecl(s, SkipIndent(s, j)).end > 0
           \/ PyClassDecl(s, SkipIndent(s, j)).end > 0
           \/ PyStatement(s, j).depth = 0}}

\* C23: for a parseable Python file the extracted symbols are exactly the
\* function names, the class names and the simple-name targets of the
\* module-level assignments; a name assigned only inside a function or class
\* body is not extracted
C23_PythonSymbols ==
    pc = "indexed" =>
        \A p \in DOMAIN files :
            (files[p].language = "python" /\ ~SyntaxError(disk[p])) =>
                Range(files[p].symbols) = PyDeclared(disk[p])

C25_CorpusRestored ==
    pc = "returned" => work = as_found
\* the files of a ledger entry's migrated_files that hold the V2 name
RewrittenToV2(X) ==
    {F \in MigratedFiles(X) : HasWord(disk[F], api_migrations[X].v2_symbol)}

\* the ledger entry of X agrees with the files
Truthful(X) ==
    /\ HasWord(disk[api_migrations[X].definition_file], api_migrations[X].v2_symbol)
    /\ Cardinality(RewrittenToV2(X)) = api_migrations[X].migrated_callsites

\* C26: when apply_api_drift has run after rename_symbols on the index
\* build_index made, the definition file of every ledger entry holds the V2
\* name and as many of its migrated files hold the V2 name as the entry
\* counts, also for a symbol the renamer renamed (every file being writable)
C26_LedgerTruthful ==
    (pc = "drifted" /\ readonly = {}) =>
        \A X \in DOMAIN api_migrations : Truthful(X)

\* the same for the entries of renamed symbols only
C26_RenamedEntriesTruthful ==
    (pc = "drifted" /\ readonly = {}) =>
        \A X \in DOMAIN api_migrations \cap DOMAIN rename_map : Truthful(X)
\* C27: after rename_symbols every generated name differs from every
\* symbol name of the index and from the name generated for every other
\* sampled symbol
C27_FreshNames ==
    pc = "renamed" =>
        \A X \in DOMAIN rename_map :
            /\ rename_map[X] \notin Range(symbol_keys)
            /\ \A Y \in DOMAIN rename_map : rename_map[Y] = rename_map[X] => Y = X
\* the identifiers of a text from position i on, in order: the maximal runs
\* of word characters
RECURSIVE Identifiers(_, _)
Identifiers(s, i) ==
    IF i > Len(s) THEN <<>>
    ELSE IF WordAt(s, i)
         THEN <<SubSeq(s, i, SkipWord(s, i) - 1)>> \o Identifiers(s, SkipWord(s, i))
         ELSE Identifiers(s, i + 1)

\* the identifiers of a text with every identifier X replaced
WithWholeWordsRenamed(s, X, new_name) ==
    LET ids == Identifiers(s, 1)
    IN  [n \in 1..Len(ids) |-> IF ids[n] = X THEN new_name ELSE ids[n]]

\* C28: a file that rename_symbols writes for symbol X has, afterwards, the
\* identifiers it had before with X replaced by the generated name where X
\* was the whole identifier, and every other identifier as it was
C28_OnlyWholeWords ==
    [][pc = "rename_files" =>
        \A F \in DOMAIN disk :
            disk'[F] # disk[F] =>
                Identifiers(disk'[F], 1) =
                    WithWholeWordsRenamed(disk[F], symbols_to_rename[at.sym],
                                          rename_map[symbols_to_rename[at.sym]])]_vars
\* the files of the file sets of the sampled symbols
SampledFiles == UNION {symbols_to_files[symbols_to_rename[n]] : n \in 1..Len(symbols_to_rename)}

\* a step of rename_symbols
RenameStep == {pc, pc'} \cap {"rename_symbol", "rename_files"} # {}

PerfectPatch ==
    \A n \in 1..Len(ground_truth.callsites) :
        LET callsite == ground_truth.callsites[n]
        IN  /\ callsite.exists
            /\ IF callsite.needs_upgrade
               THEN callsite.old_count = 0 /\ callsite.new_count > 0
               ELSE callsite.old_count > 0 /\ callsite.new_count = 0

\* score ran to its end on a patch that was applied
Scored == pc = "task_scored" /\ patch_applied /\ ground_truth.exists

\* C30: the score of an api_upgrade task is at most 1.0, and it is
\* max_score, 1.0, for a perfect patch of a ground truth with something to
\* upgrade, also when no callsite has to stay on the old function
C30_PerfectPatchScoresMax ==
    Scored =>
        /\ ~Greater(score_result.score, One)
        /\ (PerfectPatch /\ expected_upgrades > 0) => score_result.score = score_result.max_score
\* the score of an api_upgrade task is at most 1.0
ScoreAtMostOne == Scored => ~Greater(score_result.score, One)
====
